---- MODULE Spec2Model ----
(***************************************************************************)
(* A model of movie_picker's search-aggregation and ranking core:          *)
(* the local store (database/db.py, database/models.py), the two-tier      *)
(* recommendation cache and the scoring engine (services/recommender.py),  *)
(* the search aggregator (services/search.py) and the rating entry points  *)
(* of the application (ui/app.py).                                         *)
(*                                                                         *)
(* A call is modelled by the value its callee computes and the state it    *)
(* changes.  Floating-point values are exact rationals <<n, d>>.           *)
(***************************************************************************)
EXTENDS Integers, Sequences, FiniteSets, TLC

VARIABLES
    movies,         \* table movies: set of Movie rows
    user_ratings,   \* table user_ratings: set of UserRating rows
    genres,         \* table genres: canonical name -> [avg_rating, rating_count]
    directors,      \* table directors: tmdb_id -> [avg_rating, rating_count]
    actors,         \* table actors: tmdb_id -> [avg_rating, rating_count]
    rec_cache,      \* table recommendation_cache: set of RecommendationCache rows
    memory_cache,   \* RecommenderService._memory_cache: LRU entries, oldest first
    now,            \* utc_now(), in days
    last_put,       \* history: per cache key, the list and time of the latest put
    tasks,          \* background tasks started with page.run_task
    ret,            \* what the latest operation returned to its caller
    wishlist,       \* table wishlist: the movie_id of each row
    shutdown,       \* ui.app._shutdown_event is set
    disabled,       \* _disabled of the MDBListAPI and OMDBAPI instances
    trace           \* history: the requests, calls and writes made so far

vars == <<movies, user_ratings, genres, directors, actors, rec_cache,
          memory_cache, now, last_put, tasks, ret, wishlist, shutdown,
          disabled, trace>>

\* the rating providers that can be disabled (mdblist.py 13, omdb.py 13)
Providers == {"mdblist", "omdb"}

-----------------------------------------------------------------------------
(* Python's Optional: None, or a value.                                    *)

None == <<>>
Some(v) == <<v>>
Val(o) == o[1]

-----------------------------------------------------------------------------
(* Bounds of the model.                                                    *)

\* The clock runs from day 0 to day MaxTime.
MaxTime == 8

\* External (TMDB) ids of the modelled catalogue; movies and series number
\* their ids independently, so an id names one movie and one series.
ExternalIds == {1, 2}

\* Keys of the recommendation cache that are looked up: (tmdb_id, is_tv).
CacheKeys == {<<1, FALSE>>, <<1, TRUE>>}

\* What the provider's recommendation endpoint answers: the "id" of each
\* result, 0 standing for a result without a usable id.
ProviderRecs == {<<>>, <<2, 1>>, <<2, 0, 1>>}

\* The movies of a long rating history have the ids above HistoryBase, as
\* external ids and as row ids.
HistoryBase == 100

\* Lists handed to save_cached_recommendations directly.
RecLists == {<<>>, <<2, 1>>}

-----------------------------------------------------------------------------
(* Program constants.                                                      *)

MaxAgeDays == 7
MAX_CACHE_SIZE == 200

-----------------------------------------------------------------------------
(* json.dumps / json.loads of a list of integers (db.py 548, 564, 569).    *)
(* The text is a sequence of tokens: "[", numerals separated by ",", "]".  *)

RECURSIVE JoinNumerals(_)
JoinNumerals(ids) ==
    IF Len(ids) = 0 THEN <<>>
    ELSE IF Len(ids) = 1 THEN <<ToString(ids[1])>>
    ELSE <<ToString(ids[1]), ",">> \o JoinNumerals(Tail(ids))

json_dumps(ids) == <<"[">> \o JoinNumerals(ids) \o <<"]">>

NumeralValue(tok) == CHOOSE n \in 0..9 : ToString(n) = tok

RECURSIVE ParseNumerals(_)
ParseNumerals(toks) ==
    IF Len(toks) = 0 THEN <<>>
    ELSE IF toks[1] = "," THEN ParseNumerals(Tail(toks))
    ELSE <<NumeralValue(toks[1])>> \o ParseNumerals(Tail(toks))

json_loads(text) == ParseNumerals(SubSeq(text, 2, Len(text) - 1))

-----------------------------------------------------------------------------
(* Recommendation cache, persistent tier (db.py 532-572).                  *)

CacheRows(cache, tmdb_id, is_tv) ==
    {r \in cache : r.source_tmdb_id = tmdb_id /\ r.source_is_tv = is_tv}

\* a variant of the comparison: a row is stale from exactly MaxAgeDays on
CacheExpiredStrict(updated_at, t) == t - updated_at >= MaxAgeDays

\* timedelta comparison of db.py 544
CacheExpired(updated_at, t) == t - updated_at > MaxAgeDays

get_cached_recommendations(cache, tmdb_id, is_tv, t) ==
    LET rows == CacheRows(cache, tmdb_id, is_tv) IN
    IF rows = {} THEN None
    ELSE LET row == CHOOSE r \in rows : TRUE IN
         IF CacheExpired(row.updated_at, t) THEN None
         ELSE IF Len(row.recommended_ids) > 0
              THEN Some(json_loads(row.recommended_ids))
              ELSE Some(<<>>)

save_cached_recommendations(cache, tmdb_id, is_tv, recommended_ids, t) ==
    LET rows == CacheRows(cache, tmdb_id, is_tv)
        row == [source_tmdb_id |-> tmdb_id, source_is_tv |-> is_tv,
                recommended_ids |-> json_dumps(recommended_ids),
                updated_at |-> t]
    IN (cache \ rows) \cup {row}

-----------------------------------------------------------------------------
(* LRUCache (recommender.py 13-38): an OrderedDict, oldest entry first.    *)

LRUHas(c, key) == \E i \in 1..Len(c) : c[i].key = key

LRUIndex(c, key) == CHOOSE i \in 1..Len(c) : c[i].key = key

LRURemove(c, i) == SubSeq(c, 1, i - 1) \o SubSeq(c, i + 1, Len(c))

\* a variant of move_to_end that leaves the order as it is
KeepInPlace(c, key) == c

move_to_end(c, key) ==
    LET i == LRUIndex(c, key) IN Append(LRURemove(c, i), c[i])

\* a variant of LRUCache.get that finds no key
LRUGetValueMissing(c, key) == None

\* LRUCache.get: the value (None when absent) ...
LRUGetValue(c, key) ==
    IF LRUHas(c, key) THEN Some(c[LRUIndex(c, key)].value) ELSE None

\* ... and the cache after the access
LRUGetCache(c, key) == IF LRUHas(c, key) THEN move_to_end(c, key) ELSE c

LRUSet(c, key, value) ==
    IF LRUHas(c, key)
    THEN LET m == move_to_end(c, key) IN
         [m EXCEPT ![Len(m)] = [key |-> key, value |-> value]]
    ELSE LET kept == IF Len(c) >= MAX_CACHE_SIZE THEN Tail(c) ELSE c IN
         Append(kept, [key |-> key, value |-> value])

-----------------------------------------------------------------------------
(* The ids of a provider answer (recommender.py 197, search.py 77).        *)

RECURSIVE RecIds(_)
RecIds(recs) ==
    IF Len(recs) = 0 THEN <<>>
    ELSE IF recs[1] # 0 THEN <<recs[1]>> \o RecIds(Tail(recs))
    ELSE RecIds(Tail(recs))

-----------------------------------------------------------------------------
(* Python floats, as exact rationals <<n, d>> in lowest terms with d > 0.  *)

Abs(n) == IF n < 0 THEN 0 - n ELSE n

RECURSIVE GCD(_, _)
GCD(a, b) == IF b = 0 THEN a ELSE GCD(b, a % b)

Rat(n, d) ==
    LET g == GCD(Abs(n), d) IN
    IF g = 0 THEN <<0, 1>> ELSE <<n \div g, d \div g>>

RInt(n) == <<n, 1>>
RAdd(x, y) == Rat(x[1] * y[2] + y[1] * x[2], x[2] * y[2])
RSub(x, y) == Rat(x[1] * y[2] - y[1] * x[2], x[2] * y[2])
RMul(x, y) == Rat(x[1] * y[1], x[2] * y[2])
RDivInt(x, n) == Rat(x[1], x[2] * n)
RLt(x, y) == x[1] * y[2] < y[1] * x[2]
RLe(x, y) == x[1] * y[2] <= y[1] * x[2]
RMax(x, y) == IF RLt(x, y) THEN y ELSE x
RZero == RInt(0)

RECURSIVE RSum(_)
RSum(xs) == IF Len(xs) = 0 THEN RZero ELSE RAdd(xs[1], RSum(Tail(xs)))

\* sum(xs) / len(xs)
RMean(xs) == RDivInt(RSum(xs), Len(xs))

-----------------------------------------------------------------------------
(* Python lists.                                                           *)

Take(s, n) == SubSeq(s, 1, IF Len(s) < n THEN Len(s) ELSE n)

Contains(s, x) == \E i \in 1..Len(s) : s[i] = x

Range(s) == {s[i] : i \in 1..Len(s)}

\* the rows of a table in the order of their primary key
RECURSIVE RowsById(_)
RowsById(S) ==
    IF S = {} THEN <<>>
    ELSE LET First(x) == <<x>> \o RowsById(S \ {x})
         IN First(CHOOSE a \in S : \A b \in S : a.id <= b.id)

\* list.sort / sorted over entries [key, item], stable: an entry goes
\* behind the entries whose key is not greater
RECURSIVE InsertSorted(_, _)
InsertSorted(sorted, x) ==
    IF Len(sorted) = 0 THEN <<x>>
    ELSE IF RLt(x.key, sorted[1].key) THEN <<x>> \o sorted
    ELSE <<sorted[1]>> \o InsertSorted(Tail(sorted), x)

RECURSIVE StableSort(_)
StableSort(s) ==
    IF Len(s) = 0 THEN <<>>
    ELSE InsertSorted(StableSort(SubSeq(s, 1, Len(s) - 1)), s[Len(s)])

\* sorted(items, key=key) over entries [key, item]: the items, ascending
SortedAsc(entries) ==
    LET Items(sorted) == [i \in 1..Len(sorted) |-> sorted[i].item]
    IN Items(StableSort(entries))

\* sorted(items, key=key, reverse=True): descending, equal keys keep
\* their order
SortedDesc(entries) ==
    SortedAsc([i \in 1..Len(entries) |->
                  [entries[i] EXCEPT !.key = RSub(RZero, @)]])

-----------------------------------------------------------------------------
(* Python str, as a sequence of one-character strings.  Cyrillic text is   *)
(* written in transliteration.                                             *)

UpperCase == <<"A", "B", "C", "D", "E", "F", "G", "H", "I", "J", "K", "L", "M", "N", "O", "P", "Q", "R", "S", "T", "U", "V", "W", "X", "Y", "Z">>
LowerCase == <<"a", "b", "c", "d", "e", "f", "g", "h", "i", "j", "k", "l", "m", "n", "o", "p", "q", "r", "s", "t", "u", "v", "w", "x", "y", "z">>

ToLower ==
    [c \in Range(UpperCase) |->
        LowerCase[CHOOSE i \in 1..Len(UpperCase) : UpperCase[i] = c]]

ToUpper ==
    [c \in Range(LowerCase) |->
        UpperCase[CHOOSE i \in 1..Len(LowerCase) : LowerCase[i] = c]]

LowerChar(c) == IF c \in DOMAIN ToLower THEN ToLower[c] ELSE c

UpperChar(c) == IF c \in DOMAIN ToUpper THEN ToUpper[c] ELSE c

\* str.lower
Lower(s) == [i \in 1..Len(s) |-> LowerChar(s[i])]

\* str.upper
Upper(s) == [i \in 1..Len(s) |-> UpperChar(s[i])]

\* str.capitalize
Capitalize(s) ==
    [i \in 1..Len(s) |-> IF i = 1 THEN UpperChar(s[i]) ELSE LowerChar(s[i])]

\* word in text
IsSubstring(w, text) ==
    \E i \in 0..(Len(text) - Len(w)) : SubSeq(text, i + 1, i + Len(w)) = w

StartsWith(s, p) == Len(p) <= Len(s) /\ SubSeq(s, 1, Len(p)) = p

\* str.strip
RECURSIVE LStrip(_)
LStrip(s) == IF Len(s) > 0 /\ s[1] = " " THEN LStrip(Tail(s)) ELSE s

RECURSIVE RStrip(_)
RStrip(s) ==
    IF Len(s) > 0 /\ s[Len(s)] = " " THEN RStrip(SubSeq(s, 1, Len(s) - 1))
    ELSE s

Strip(s) == RStrip(LStrip(s))

\* s.split(sep): the pieces of s between the occurrences of sep
RECURSIVE SplitFrom(_, _, _)
SplitFrom(s, sep, piece) ==
    IF Len(s) = 0 THEN <<piece>>
    ELSE IF StartsWith(s, sep)
         THEN <<piece>> \o SplitFrom(SubSeq(s, Len(sep) + 1, Len(s)), sep, <<>>)
         ELSE SplitFrom(Tail(s), sep, Append(piece, s[1]))

Split(s, sep) == SplitFrom(s, sep, <<>>)

\* s.split(): the words of s between runs of whitespace
SplitWords(s) == SelectSeq(Split(s, <<" ">>), LAMBDA w : Len(w) > 0)

\* sep.join(parts)
RECURSIVE Join(_, _)
Join(sep, parts) ==
    IF Len(parts) = 0 THEN <<>>
    ELSE IF Len(parts) = 1 THEN parts[1]
    ELSE parts[1] \o sep \o Join(sep, Tail(parts))

-----------------------------------------------------------------------------
(* Genres (genre_utils.py).  The rows of GENRE_SEED_DATA that the modelled *)
(* catalogue uses: (canonical name, aliases, tmdb_movie_id, tmdb_tv_id).   *)

GENRE_SEED_DATA == <<
    [name |-> <<"b", "o", "e", "v", "i", "k">>, aliases |-> <<"a", "c", "t", "i", "o", "n", ",", " ", "e", "k", "s", "h", "e", "n">>,
     tmdb_movie_id |-> Some(28), tmdb_tv_id |-> Some(10759)],
    [name |-> <<"p", "r", "i", "k", "l", "y", "u", "c", "h", "e", "n", "i", "y", "a">>, aliases |-> <<"a", "d", "v", "e", "n", "t", "u", "r", "e">>,
     tmdb_movie_id |-> Some(12), tmdb_tv_id |-> Some(10759)],
    [name |-> <<"d", "r", "a", "m", "a">>, aliases |-> <<"d", "r", "a", "m", "a">>,
     tmdb_movie_id |-> Some(18), tmdb_tv_id |-> Some(18)],
    [name |-> <<"u", "z", "h", "a", "s", "y">>, aliases |-> <<"h", "o", "r", "r", "o", "r", ",", " ", "k", "h", "o", "r", "r", "o", "r">>,
     tmdb_movie_id |-> Some(27), tmdb_tv_id |-> None],
    [name |-> <<"t", "v", " ", "f", "i", "l", "m">>, aliases |-> <<"t", "v", " ", "m", "o", "v", "i", "e">>,
     tmdb_movie_id |-> Some(10770), tmdb_tv_id |-> None] >>

GenreNames == {GENRE_SEED_DATA[i].name : i \in 1..Len(GENRE_SEED_DATA)}

\* position of a genre in the genres table (its primary key)
GenreId(name) ==
    CHOOSE i \in 1..Len(GENRE_SEED_DATA) : GENRE_SEED_DATA[i].name = name

COMBINED_GENRES == <<
    [key |-> <<"b", "o", "e", "v", "i", "k", " ", "i", " ", "p", "r", "i", "k", "l", "y", "u", "c", "h", "e", "n", "i", "y", "a">>,
     names |-> <<<<"b", "o", "e", "v", "i", "k">>, <<"p", "r", "i", "k", "l", "y", "u", "c", "h", "e", "n", "i", "y", "a">>>>],
    [key |-> <<"a", "c", "t", "i", "o", "n", " ", "&", " ", "a", "d", "v", "e", "n", "t", "u", "r", "e">>,
     names |-> <<<<"b", "o", "e", "v", "i", "k">>, <<"p", "r", "i", "k", "l", "y", "u", "c", "h", "e", "n", "i", "y", "a">>>>] >>

IsCombined(text) ==
    \E i \in 1..Len(COMBINED_GENRES) : COMBINED_GENRES[i].key = text

\* a variant of CombinedNames that takes a phrase for its first genre alone
CombinedNamesMerged(text) ==
    LET i == CHOOSE j \in 1..Len(COMBINED_GENRES) :
                 COMBINED_GENRES[j].key = text
    IN {COMBINED_GENRES[i].names[1]} \cap GenreNames

\* for canonical_name in COMBINED_GENRES[genre_lower] (genre_utils.py
\* 214-216, 231-233)
CombinedNames(text) ==
    LET i == CHOOSE j \in 1..Len(COMBINED_GENRES) :
                 COMBINED_GENRES[j].key = text
    IN Range(COMBINED_GENRES[i].names) \cap GenreNames

\* init_genre_cache: the aliases of a genre
Aliases(g) ==
    LET Of(pieces) == {Lower(Strip(pieces[i])) : i \in 1..Len(pieces)} \ {<<>>}
    IN Of(Split(g.aliases, <<",", " ">>))

\* a variant of _lookup_genre that looks in the canonical names only
_lookup_genre_names_only(name) ==
    IF name \in {Lower(n) : n \in GenreNames}
    THEN {n \in GenreNames : Lower(n) = name}
    ELSE {}

\* _lookup_genre: canonical names first, then aliases; {} when unknown
_lookup_genre(name) ==
    IF name \in {Lower(n) : n \in GenreNames}
    THEN {n \in GenreNames : Lower(n) = name}
    ELSE LET hits == {i \in 1..Len(GENRE_SEED_DATA) :
                          name \in Aliases(GENRE_SEED_DATA[i])}
         IN IF hits = {} THEN {}
            ELSE {GENRE_SEED_DATA[CHOOSE i \in hits :
                                      \A j \in hits : j <= i].name}

\* one comma-separated part of the genre string
NormalizePart(raw) ==
    LET OfSubparts(subparts) ==
            UNION {IF Len(Strip(subparts[i])) = 0 THEN {}
                   ELSE _lookup_genre(Lower(Strip(subparts[i]))) :
                   i \in 1..Len(subparts)}
        Of(part, part_lower) ==
            IF Len(part) = 0 THEN {}
            ELSE IF IsCombined(part_lower) THEN CombinedNames(part_lower)
            ELSE IF IsSubstring(<<" ", "i", " ">>, part_lower)
            THEN OfSubparts(Split(part, <<" ", "i", " ">>))
            ELSE _lookup_genre(part_lower)
    IN Of(Strip(raw), Lower(Strip(raw)))

\* normalize_genres_async: the set of genres a genre string names
normalize_genres(genre_string) ==
    IF Len(genre_string) = 0 THEN {}
    ELSE IF IsCombined(Strip(Lower(genre_string)))
    THEN CombinedNames(Strip(Lower(genre_string)))
    ELSE LET Of(parts) == UNION {NormalizePart(parts[i]) : i \in 1..Len(parts)}
         IN Of(Split(genre_string, <<",">>))

\* the genres of a movie in the order of the genres table
GenreList(names) ==
    LET ids == {GenreId(n) : n \in names}
        RECURSIVE Asc(_)
        Asc(S) == IF S = {} THEN <<>>
                  ELSE LET m == CHOOSE a \in S : \A b \in S : a <= b
                       IN <<GENRE_SEED_DATA[m].name>> \o Asc(S \ {m})
    IN Asc(ids)

-----------------------------------------------------------------------------
(* The providers' catalogue: what TMDB and MDBList answer.                 *)

\* an item's identity: (kinopoisk_id, is_tv)
MovieKeys == {<<id, tv>> : id \in ExternalIds, tv \in BOOLEAN}

Basic(id, tv) == [kinopoisk_id |-> id, is_tv |-> tv]

Person(id, name) == [tmdb_id |-> id, name |-> name]

\* TMDBAPI.get_full_movie_info / get_full_tv_info (tmdb.py 147-167, 201-221)
TMDBDetails(k) ==
    CASE k = <<1, FALSE>> ->
           Some([kinopoisk_id |-> 1, is_tv |-> FALSE,
                 title |-> <<"A", "b">>, title_original |-> None,
                 description |-> Some(<<"b", "a">>),
                 tmdb_rating |-> Some(RInt(6)),
                 genres |-> <<"D", "r", "a", "m", "a", ",", " ", "u", "z", "h", "a", "s", "y">>,
                 directors |-> <<Person(11, Some(<<"U", "a">>))>>,
                 actors |-> <<Person(21, Some(<<"B", "d">>)), Person(22, Some(<<"d", "u">>))>>])
      [] k = <<1, TRUE>> ->
           Some([kinopoisk_id |-> 1, is_tv |-> TRUE,
                 title |-> <<"a", "b">>, title_original |-> Some(<<"B", "u">>),
                 description |-> None,
                 tmdb_rating |-> Some(RInt(7)),
                 genres |-> <<"B", "o", "e", "v", "i", "k", " ", "i", " ", "p", "r", "i", "k", "l", "y", "u", "c", "h", "e", "n", "i", "y", "a">>,
                 directors |-> <<>>,
                 actors |-> <<Person(22, Some(<<"d", "u">>))>>])
      [] k = <<2, FALSE>> ->
           Some([kinopoisk_id |-> 2, is_tv |-> FALSE,
                 title |-> <<"b", "b">>, title_original |-> None,
                 description |-> Some(<<"a", " ", "d">>),
                 tmdb_rating |-> Some(RInt(0)),
                 genres |-> <<"d", "r", "a", "m", "a">>,
                 directors |-> <<Person(11, Some(<<"U", "a">>)), Person(12, Some(<<"b", "u">>))>>,
                 actors |-> <<>>])
      [] k = <<2, TRUE>> ->
           Some([kinopoisk_id |-> 2, is_tv |-> TRUE,
                 title |-> <<"b">>, title_original |-> None,
                 description |-> None,
                 tmdb_rating |-> None,
                 genres |-> <<>>,
                 directors |-> <<Person(13, None)>>,
                 actors |-> <<>>])
      [] k = <<3, FALSE>> ->
           Some([kinopoisk_id |-> 3, is_tv |-> FALSE,
                 title |-> <<"u", "b">>, title_original |-> None,
                 description |-> None,
                 tmdb_rating |-> Some(RInt(7)),
                 genres |-> <<"h", "o", "r", "r", "o", "r">>,
                 directors |-> <<Person(12, Some(<<"b", "u">>))>>,
                 actors |-> <<Person(21, Some(<<"B", "d">>))>>])
      [] OTHER -> None

\* MDBListAPI.get_ratings_by_tmdb_id
MDBListRatings(k) ==
    CASE k = <<1, FALSE>> ->
           [imdb |-> Some(RInt(9)), rotten_tomatoes |-> None, metacritic |-> None]
      [] k = <<2, FALSE>> ->
           [imdb |-> None, rotten_tomatoes |-> Some(80), metacritic |-> None]
      [] k = <<3, FALSE>> ->
           [imdb |-> Some(RInt(5)), rotten_tomatoes |-> None, metacritic |-> None]
      [] OTHER ->
           [imdb |-> None, rotten_tomatoes |-> None, metacritic |-> None]

\* TMDBAPI.get_recommendations_movie / _tv (tmdb.py 354-366): a movie's
\* recommendations are movies, a series' are series; every movie of a long
\* history recommends movie 1
TMDBRecommendations(k) ==
    CASE k = <<1, FALSE>> -> <<Basic(2, FALSE)>>
      [] k = <<1, TRUE>> -> <<Basic(2, TRUE)>>
      [] k = <<2, FALSE>> -> <<Basic(1, FALSE)>>
      [] k[1] > HistoryBase /\ ~k[2] -> <<Basic(1, FALSE)>>
      [] OTHER -> <<>>

\* TMDBAPI.search_by_keyword (tmdb.py 403-487), by word and page
search_by_keyword(word, pg) ==
    CASE word = <<"a">> /\ pg = 1 -> <<Basic(1, FALSE), Basic(1, TRUE)>>
      [] word = <<"a">> /\ pg = 2 -> <<Basic(2, FALSE), Basic(1, FALSE)>>
      [] word = <<"b", "b">> /\ pg = 1 -> <<Basic(2, FALSE)>>
      [] word = <<"d", "u">> /\ pg = 1 -> <<Basic(1, TRUE), Basic(1, FALSE)>>
      [] word = <<"d", "u">> /\ pg = 2 -> <<Basic(1, FALSE)>>
      [] OTHER -> <<>>

\* TMDBAPI.discover_by_genre (tmdb.py 336-352): movies having all the genres
discover_by_genre(genre_ids, pg) ==
    IF ~(Range(genre_ids) \subseteq {18, 27}) \/ pg > 2 THEN <<>>
    ELSE IF 27 \in Range(genre_ids)
         THEN IF pg = 1 THEN <<Basic(1, FALSE)>> ELSE <<>>
         ELSE IF pg = 1 THEN <<Basic(2, FALSE), Basic(1, FALSE)>>
              ELSE <<Basic(1, FALSE)>>

\* TMDBAPI.discover_tv_by_genre
discover_tv_by_genre(genre_ids, pg) ==
    IF pg = 1 /\ Range(genre_ids) \subseteq {10759}
    THEN <<Basic(1, TRUE), Basic(2, TRUE)>>
    ELSE <<>>

-----------------------------------------------------------------------------
(* The local store (db.py).  A Movie row carries its M2M links: genre_list *)
(* holds genre names, director_list and actor_list hold tmdb ids.  The     *)
(* genres, directors and actors tables are functions from these keys.      *)

get_movie_by_kp_id(ms, kinopoisk_id, is_tv) ==
    LET rows == {m \in ms : m.kinopoisk_id = kinopoisk_id /\ m.is_tv = is_tv}
    IN IF rows = {} THEN None ELSE Some(CHOOSE r \in rows : TRUE)

MovieById(ms, id) == CHOOSE m \in ms : m.id = id

\* the primary key given to an inserted row
NextId(rows) ==
    IF rows = {} THEN 1
    ELSE (CHOOSE i \in {r.id : r \in rows} : \A r \in rows : r.id <= i) + 1

NewEntity(name) == [name |-> name, avg_rating |-> None, rating_count |-> 0]

\* get_or_create_director / get_or_create_actor (db.py 251-274)
get_or_create(tab, tmdb_id, name) ==
    IF tmdb_id \in DOMAIN tab
    THEN [tab EXCEPT ![tmdb_id].name = name]
    ELSE (tmdb_id :> NewEntity(name)) @@ tab

\* set_movie_directors / set_movie_actors (db.py 203-244): the table, the
\* links, and whether a name of None made .strip() raise
RECURSIVE SetPersons(_, _, _)
SetPersons(tab, persons, links) ==
    IF Len(persons) = 0
    THEN [tab |-> tab, links |-> links, raised |-> FALSE]
    ELSE LET Named(p, name) ==
                 IF p.tmdb_id = 0 \/ Len(name) = 0 \/ Contains(links, p.tmdb_id)
                 THEN SetPersons(tab, Tail(persons), links)
                 ELSE SetPersons(get_or_create(tab, p.tmdb_id, name),
                                 Tail(persons), Append(links, p.tmdb_id))
         IN IF persons[1].name = None
            THEN [tab |-> tab, links |-> links, raised |-> TRUE]
            ELSE Named(persons[1], Strip(Val(persons[1].name)))

\* a new Movie from movie_data (db.py 153-155)
NewMovie(id, d) ==
    [id |-> id, kinopoisk_id |-> d.kinopoisk_id, is_tv |-> d.is_tv,
     title |-> d.title, title_original |-> d.title_original,
     description |-> d.description, tmdb_rating |-> d.tmdb_rating,
     imdb_rating |-> None, rotten_tomatoes |-> None, metacritic |-> None,
     genre_list |-> <<>>, director_list |-> <<>>, actor_list |-> <<>>]

\* setattr over movie_data (db.py 157-159)
UpdatedMovie(m, d) ==
    [m EXCEPT !.title = d.title, !.title_original = d.title_original,
              !.description = d.description, !.tmdb_rating = d.tmdb_rating]

\* the try block of save_movie (db.py 151-172) for the row its lookup
\* found, on the tables db = [movies, directors, actors]: the tables as
\* committed, the row, and whether the block raised
SaveWith(db, movie_data, existing) ==
    LET Stored(row, ds, acs) ==
            [db |-> [movies |-> {m \in db.movies : m.id # row.id} \cup {row},
                     directors |-> ds.tab, actors |-> acs.tab],
             movie |-> Some(row), raised |-> FALSE]
        Related(ds, acs) ==
            IF ds.raised \/ acs.raised
            THEN [db |-> db, movie |-> None, raised |-> TRUE]
            ELSE Stored(
                     [(IF existing = None
                       THEN NewMovie(NextId(db.movies), movie_data)
                       ELSE UpdatedMovie(Val(existing), movie_data))
                      EXCEPT
                         !.genre_list =
                             GenreList(normalize_genres(movie_data.genres)),
                         !.director_list = ds.links,
                         !.actor_list = acs.links],
                     ds, acs)
    IN Related(SetPersons(db.directors, movie_data.directors, <<>>),
               SetPersons(db.actors, Take(movie_data.actors, 10), <<>>))

\* save_movie (db.py 135-179) run without interruption: the tables
\* afterwards, the row returned, and whether it raised
save_movie(db, movie_data) ==
    LET Tried(existing, saved) ==
            IF saved.raised
            THEN [db |-> db, movie |-> existing, raised |-> existing = None]
            ELSE saved
        Found(existing) == Tried(existing, SaveWith(db, movie_data, existing))
    IN Found(get_movie_by_kp_id(db.movies, movie_data.kinopoisk_id,
                                movie_data.is_tv))

-----------------------------------------------------------------------------
(* User ratings and entity affinities (db.py 299-471).                     *)

get_user_rating(urs, movie_id) ==
    LET rows == {ur \in urs : ur.movie_id = movie_id}
    IN IF rows = {} THEN None ELSE Some(CHOOSE r \in rows : TRUE)

\* save_user_rating (db.py 309-329)
save_user_rating(urs, movie_id, rating, review) ==
    LET Saved(user_rating) ==
            IF user_rating = None
            THEN urs \cup {[id |-> NextId(urs), movie_id |-> movie_id,
                            rating |-> rating, review |-> review]}
            ELSE (urs \ {Val(user_rating)})
                 \cup {[Val(user_rating) EXCEPT
                            !.rating = rating,
                            !.review = IF review # None THEN review ELSE @]}
    IN Saved(get_user_rating(urs, movie_id))

\* delete_user_rating (db.py 332-340)
delete_user_rating(urs, movie_id) ==
    {ur \in urs : ur.movie_id # movie_id}

\* get_all_user_ratings (db.py 355-364)
get_all_user_ratings(urs) == RowsById(urs)

\* get_rated_movies (db.py 386-401)
get_rated_movies(ms, urs, min_rating) ==
    RowsById({m \in ms : \E ur \in urs :
                  ur.movie_id = m.id /\ ur.rating >= min_rating})

\* avg(UserRating.rating), count(UserRating.id) over the ratings of the
\* movies that carry a link: (None, 0) when there is none
EntityStats(linked) ==
    LET Stats(rated) ==
            IF Len(rated) = 0
            THEN [avg_rating |-> None, rating_count |-> 0]
            ELSE [avg_rating |->
                      Some(RMean([i \in 1..Len(rated) |-> RInt(rated[i].rating)])),
                  rating_count |-> Len(rated)]
    IN Stats(RowsById(linked))

GenreStats(ms, urs, name) ==
    EntityStats({ur \in urs : \E m \in ms :
                     m.id = ur.movie_id /\ Contains(m.genre_list, name)})

DirectorStats(ms, urs, id) ==
    EntityStats({ur \in urs : \E m \in ms :
                     m.id = ur.movie_id /\ Contains(m.director_list, id)})

ActorStats(ms, urs, id) ==
    EntityStats({ur \in urs : \E m \in ms :
                     m.id = ur.movie_id /\ Contains(m.actor_list, id)})

\* a variant of WithStats that adds the new count to the stored one
WithStatsAccumulated(row, stats) ==
    [row EXCEPT !.avg_rating = stats.avg_rating,
                !.rating_count = @ + stats.rating_count]

\* genre.avg_rating, genre.rating_count = genre_stats[genre.id], or None, 0
\* (db.py 425-429, 446-450, 467-471)
WithStats(row, stats) ==
    [row EXCEPT !.avg_rating = stats.avg_rating,
                !.rating_count = stats.rating_count]

\* a variant of UpdatedGenres that averages the rating of the given movie
\* only
UpdatedGenresOfMovieOnly(gs, ms, urs, movie) ==
    [n \in DOMAIN gs |->
        IF Contains(movie.genre_list, n)
        THEN WithStats(gs[n], GenreStats({movie}, urs, n)) ELSE gs[n]]

\* update_entity_ratings (db.py 408-471): the three tables after the
\* affinities of the movie's genres, directors and actors are recomputed
UpdatedGenres(gs, ms, urs, movie) ==
    [n \in DOMAIN gs |->
        IF Contains(movie.genre_list, n)
        THEN WithStats(gs[n], GenreStats(ms, urs, n)) ELSE gs[n]]

UpdatedDirectors(ds, ms, urs, movie) ==
    [d \in DOMAIN ds |->
        IF Contains(movie.director_list, d)
        THEN WithStats(ds[d], DirectorStats(ms, urs, d)) ELSE ds[d]]

UpdatedActors(acs, ms, urs, movie) ==
    [a \in DOMAIN acs |->
        IF Contains(movie.actor_list, a)
        THEN WithStats(acs[a], ActorStats(ms, urs, a)) ELSE acs[a]]

\* _seed_genres: the genres table after construction
SeededGenres ==
    [n \in GenreNames |-> [avg_rating |-> None, rating_count |-> 0]]

-----------------------------------------------------------------------------
(* RecommenderService (recommender.py).                                    *)

WEIGHT_TMDB_SIMILARITY == Rat(10, 10)
\* a variant of WEIGHT_DIRECTOR with the sign reversed
WEIGHT_DIRECTOR_NEGATED == Rat(0 - 8, 10)
WEIGHT_DIRECTOR == Rat(8, 10)
WEIGHT_GENRES == Rat(5, 10)
WEIGHT_ACTORS == Rat(3, 10)
WEIGHT_AGGREGATORS == Rat(2, 10)

MAX_RATED_MOVIES_FOR_SIMILARITY == 30

\* the ids of the provider's recommendations for a key
ProviderIds(k) ==
    LET recs == TMDBRecommendations(k)
    IN [i \in 1..Len(recs) |-> recs[i].kinopoisk_id]

\* _get_cached_recommendations (recommender.py 175-203) on the two tiers:
\* the list returned and the tiers afterwards; recs is the provider's
\* answer, asked for only on a miss in both tiers; tier names where the
\* list came from
_get_cached_recommendations(mem, cache, k, t, recs) ==
    LET Fetched(rec_ids) ==
            [rec_ids |-> rec_ids, mem |-> LRUSet(mem, k, rec_ids),
             cache |-> save_cached_recommendations(cache, k[1], k[2], rec_ids, t),
             fetched |-> TRUE, tier |-> "provider"]
        FromDB(cached) ==
            IF cached # None
            THEN [rec_ids |-> Val(cached), mem |-> LRUSet(mem, k, Val(cached)),
                  cache |-> cache, fetched |-> FALSE, tier |-> "store"]
            ELSE Fetched(RecIds(recs))
        FromMemory(cached_mem) ==
            IF cached_mem # None
            THEN [rec_ids |-> Val(cached_mem), mem |-> LRUGetCache(mem, k),
                  cache |-> cache, fetched |-> FALSE, tier |-> "memory"]
            ELSE FromDB(get_cached_recommendations(cache, k[1], k[2], t))
    IN FromMemory(LRUGetValue(mem, k))

\* a variant of SelectedRatings without the limits
SelectedRatingsUncapped(user_ratings_list) ==
    SelectSeq(user_ratings_list, LAMBDA ur : ur.rating >= 6)
        \o SelectSeq(user_ratings_list, LAMBDA ur : ur.rating <= 4)

\* recommender.py 138-146: the ratings that take part in the similarity
SelectedRatings(user_ratings_list) ==
    LET liked == SelectSeq(user_ratings_list, LAMBDA ur : ur.rating >= 6)
        disliked == SelectSeq(user_ratings_list, LAMBDA ur : ur.rating <= 4)
        half_limit == MAX_RATED_MOVIES_FOR_SIMILARITY \div 2
        ByRating(urs) ==
            [i \in 1..Len(urs) |-> [key |-> RInt(urs[i].rating), item |-> urs[i]]]
        top_liked == Take(SortedDesc(ByRating(liked)), half_limit)
        top_disliked == Take(SortedAsc(ByRating(disliked)), half_limit)
    IN top_liked \o top_disliked

\* recommender.py 166-171: what one rated item adds for the candidate
PositionWeight(i) == RMax(Rat(1, 10), RSub(RInt(1), Rat(i * 5, 100)))

Contribution(rating, rec_ids, movie) ==
    LET At(hits) ==
            IF hits = {} THEN RZero
            ELSE RMul(RInt(rating - 5),
                      PositionWeight((CHOOSE i \in hits :
                                          \A j \in hits : i <= j) - 1))
    IN At({i \in 1..Len(rec_ids) : rec_ids[i] = movie.kinopoisk_id})

\* _tmdb_similarity_score (recommender.py 120-173), the loop over the
\* selected ratings: the total and the cache tiers afterwards
RECURSIVE SimilarityLoop(_, _, _, _, _, _, _)
SimilarityLoop(selected, movie, ms, mem, cache, t, total) ==
    IF Len(selected) = 0
    THEN [total |-> total, mem |-> mem, cache |-> cache]
    ELSE LET Looked(ur, got) ==
                 SimilarityLoop(Tail(selected), movie, ms, got.mem, got.cache, t,
                                RAdd(total, Contribution(ur.rating, got.rec_ids,
                                                         movie)))
             Rated(ur, rated_movie) ==
                 Looked(ur, _get_cached_recommendations(
                                mem, cache,
                                <<rated_movie.kinopoisk_id, rated_movie.is_tv>>, t,
                                ProviderIds(<<rated_movie.kinopoisk_id,
                                              rated_movie.is_tv>>)))
         IN IF ~(\E m \in ms : m.id = selected[1].movie_id)
            THEN SimilarityLoop(Tail(selected), movie, ms, mem, cache, t, total)
            ELSE Rated(selected[1], MovieById(ms, selected[1].movie_id))

_tmdb_similarity_score(movie, ms, urs, mem, cache, t) ==
    SimilarityLoop(SelectedRatings(get_all_user_ratings(urs)), movie, ms,
                   mem, cache, t, RZero)

\* the avg_rating values that are not None, of the linked rows of a table
KnownAverages(tab, links) ==
    LET Of(known) == [i \in 1..Len(known) |-> Val(tab[known[i]].avg_rating)]
    IN Of(SelectSeq(links, LAMBDA l : tab[l].avg_rating # None))

\* weight * (mean - 5), or 0 when no linked row has an average
AffinityTerm(weight, tab, links) ==
    LET Of(scores) ==
            IF Len(scores) = 0 THEN RZero
            ELSE RMul(weight, RSub(RMean(scores), RInt(5)))
    IN Of(KnownAverages(tab, links))

Truthy(o) == o # None /\ Val(o) # RZero

\* _calculate_aggregator_score (recommender.py 205-225)
_calculate_aggregator_score(movie) ==
    LET Of(scores) == IF Len(scores) > 0 THEN RMean(scores) ELSE RInt(5)
    IN Of(
            (IF Truthy(movie.tmdb_rating) THEN <<Val(movie.tmdb_rating)>> ELSE <<>>)
         \o (IF Truthy(movie.imdb_rating) THEN <<Val(movie.imdb_rating)>> ELSE <<>>)
         \o (IF movie.rotten_tomatoes # None /\ Val(movie.rotten_tomatoes) # 0
             THEN <<Rat(Val(movie.rotten_tomatoes), 10)>> ELSE <<>>)
         \o (IF movie.metacritic # None /\ Val(movie.metacritic) # 0
             THEN <<Rat(Val(movie.metacritic), 10)>> ELSE <<>>))

\* calculate_score (recommender.py 60-118): the score, its similarity part,
\* and the cache tiers afterwards
calculate_score(movie, ms, urs, gs, ds, acs, mem, cache, t) ==
    LET Scored(sim) ==
            [score |->
                 RAdd(RMul(WEIGHT_TMDB_SIMILARITY, sim.total),
                 RAdd(AffinityTerm(WEIGHT_DIRECTOR, ds, movie.director_list),
                 RAdd(AffinityTerm(WEIGHT_GENRES, gs, movie.genre_list),
                 RAdd(AffinityTerm(WEIGHT_ACTORS, acs, Take(movie.actor_list, 5)),
                      RMul(WEIGHT_AGGREGATORS,
                           RSub(_calculate_aggregator_score(movie), RInt(5))))))),
             similarity |-> sim.total, mem |-> sim.mem, cache |-> sim.cache]
    IN Scored(_tmdb_similarity_score(movie, ms, urs, mem, cache, t))

\* has_user_ratings (recommender.py 231-236)
has_user_ratings(urs) == Cardinality(urs) > 0

-----------------------------------------------------------------------------
(* Hydration (search.py 198-254, 416-434).                                 *)

EmptyDB == [movies |-> {}, directors |-> <<>>, actors |-> <<>>]

\* the loop over the completed _load_single_item futures of
\* _load_movies_parallel (search.py 235-243): each item that was fetched is
\* saved; an item that could not be fetched or saved is left out
RECURSIVE LoadItems(_, _, _)
LoadItems(db, to_load, loaded) ==
    IF Len(to_load) = 0 THEN [db |-> db, movies |-> loaded]
    ELSE LET Saved(saved) ==
                 IF saved.raised
                 THEN LoadItems(saved.db, Tail(to_load), loaded)
                 ELSE LoadItems(saved.db, Tail(to_load),
                                Append(loaded, Val(saved.movie).id))
             Fetched(full_info) ==
                 IF full_info = None
                 THEN LoadItems(db, Tail(to_load), loaded)
                 ELSE Saved(save_movie(db, Val(full_info)))
         IN Fetched(TMDBDetails(to_load[1]))

\* the store after the whole catalogue has been hydrated once
CatalogueOrder == << <<1, FALSE>>, <<1, TRUE>>, <<2, FALSE>>, <<2, TRUE>> >>

HydratedDB == LoadItems(EmptyDB, CatalogueOrder, <<>>).db

\* every affinity brought up to date with the ratings
AllGenresUpdated(gs, ms, urs) ==
    [n \in DOMAIN gs |-> WithStats(gs[n], GenreStats(ms, urs, n))]

AllDirectorsUpdated(ds, ms, urs) ==
    [d \in DOMAIN ds |-> WithStats(ds[d], DirectorStats(ms, urs, d))]

AllActorsUpdated(acs, ms, urs) ==
    [a \in DOMAIN acs |-> WithStats(acs[a], ActorStats(ms, urs, a))]

-----------------------------------------------------------------------------
(* Operations on the recommendation cache.                                 *)

RecordPut(k, ids) ==
    last_put' = [last_put EXCEPT ![k] = Some([ids |-> ids, at |-> now])]

\* save_cached_recommendations called with a list (search.py 78, 671, 726)
Put(k, ids) ==
    /\ rec_cache' = save_cached_recommendations(rec_cache, k[1], k[2], ids, now)
    /\ RecordPut(k, ids)
    /\ ret' = [op |-> "put", key |-> k, value |-> None]
    /\ UNCHANGED <<movies, user_ratings, genres, directors, actors,
                   memory_cache, now, tasks,
                   wishlist, shutdown, disabled, trace>>

\* get_cached_recommendations called directly (search.py 54, 647, 714)
Get(k) ==
    /\ ret' = [op |-> "get", key |-> k,
               value |-> get_cached_recommendations(rec_cache, k[1], k[2], now)]
    /\ UNCHANGED <<movies, user_ratings, genres, directors, actors, rec_cache,
                   memory_cache, now, last_put, tasks,
                   wishlist, shutdown, disabled, trace>>

\* RecommenderService._get_cached_recommendations called for a key; recs is
\* the provider's answer, and ret.tier tells whether the provider was called
Lookup(k, recs) ==
    LET got == _get_cached_recommendations(memory_cache, rec_cache, k, now, recs)
    IN
    /\ memory_cache' = got.mem
    /\ rec_cache' = got.cache
    /\ IF got.fetched THEN RecordPut(k, got.rec_ids) ELSE UNCHANGED last_put
    /\ ret' = [op |-> "lookup", key |-> k, value |-> Some(got.rec_ids),
               tier |-> got.tier]
    /\ UNCHANGED <<movies, user_ratings, genres, directors, actors, now, tasks,
                   wishlist, shutdown, disabled, trace>>

\* a day passes
Tick ==
    /\ now < MaxTime
    /\ now' = now + 1
    /\ UNCHANGED <<movies, user_ratings, genres, directors, actors, rec_cache,
                   memory_cache, last_put, tasks, ret,
                   wishlist, shutdown, disabled, trace>>

NoRet == [op |-> "none", key |-> <<0, FALSE>>, value |-> None]

InitCache ==
    /\ movies = {}
    /\ user_ratings = {}
    /\ genres = <<>>
    /\ directors = <<>>
    /\ actors = <<>>
    /\ rec_cache = {}
    /\ memory_cache = <<>>
    /\ now = 0
    /\ last_put = [k \in CacheKeys |-> None]
    /\ wishlist = {}
    /\ shutdown = FALSE
    /\ disabled = [p \in Providers |-> FALSE]
    /\ trace = <<>>
    /\ tasks = <<>>
    /\ ret = NoRet

NextCache ==
    \/ Tick
    \/ \E k \in CacheKeys, ids \in RecLists : Put(k, ids)
    \/ \E k \in CacheKeys : Get(k)
    \/ \E k \in CacheKeys, recs \in ProviderRecs : Lookup(k, recs)

SpecCache == InitCache /\ [][NextCache]_vars

-----------------------------------------------------------------------------
(* Scoring a stored item: calculate_score over a store whose catalogue is  *)
(* hydrated, for the ratings and cached recommendation lists drawn by the  *)
(* initial state.                                                          *)

\* ratings the user gives in the scoring runs (0: not rated)
ScoreRatings == {0, 4, 8, 9}

\* recommendation lists found in the persistent cache (<<0>>: no row)
ScoreRecLists == {<<0>>, <<>>, <<1>>, <<2, 1>>}

\* the user_ratings table for ratings given in the order of the movie ids
RatingTable(f) ==
    LET rated == {i \in DOMAIN f : f[i] # 0}
        Rank(i) == Cardinality({j \in rated : j <= i})
    IN {[id |-> Rank(i), movie_id |-> i, rating |-> f[i], review |-> None] :
        i \in rated}

\* the recommendation_cache table holding the lists c, written at day 0
CacheTable(ms, c) ==
    UNION {IF c[m.id] = <<0>> THEN {}
           ELSE save_cached_recommendations({}, m.kinopoisk_id, m.is_tv,
                                            c[m.id], 0) : m \in ms}

InitScore ==
    \E f \in [{m.id : m \in HydratedDB.movies} -> ScoreRatings],
       c \in [{m.id : m \in HydratedDB.movies} -> ScoreRecLists] :
        /\ movies = HydratedDB.movies
        /\ user_ratings = RatingTable(f)
        /\ genres = AllGenresUpdated(SeededGenres, movies, user_ratings)
        /\ directors = AllDirectorsUpdated(HydratedDB.directors, movies,
                                           user_ratings)
        /\ actors = AllActorsUpdated(HydratedDB.actors, movies, user_ratings)
        /\ rec_cache = CacheTable(HydratedDB.movies, c)
        /\ memory_cache = <<>>
        /\ now = 0
        /\ last_put = [k \in CacheKeys |-> None]
        /\ wishlist = {}
        /\ shutdown = FALSE
        /\ disabled = [p \in Providers |-> FALSE]
        /\ trace = <<>>
        /\ tasks = <<>>
        /\ ret = NoRet

\* RecommenderService.calculate_score(movie, session)
Score(m) ==
    LET r == calculate_score(m, movies, user_ratings, genres, directors,
                             actors, memory_cache, rec_cache, now)
    IN /\ memory_cache' = r.mem
       /\ rec_cache' = r.cache
       /\ ret' = [op |-> "score", key |-> <<m.kinopoisk_id, m.is_tv>>,
                  value |-> [score |-> r.score, similarity |-> r.similarity]]
       /\ UNCHANGED <<movies, user_ratings, genres, directors, actors, now,
                      last_put, tasks,
                      wishlist, shutdown, disabled, trace>>

NextScore == \E m \in movies : Score(m)

SpecScore == InitScore /\ [][NextScore]_vars

-----------------------------------------------------------------------------
(* SearchService.search_movies (search.py 31-165).                         *)

\* search.py 36
QueryWords(query) ==
    LET ws == SplitWords(query) IN [i \in 1..Len(ws) |-> Lower(ws[i])]

\* as_completed: the futures of a pool complete in any order; the orders
\* followed here are the order of submission and its reverse
Orders(n) == {[i \in 1..n |-> i], [i \in 1..n |-> n + 1 - i]}

Permuted(s, p) == [i \in 1..Len(s) |-> s[p[i]]]

\* a variant of Seen with one seen set for both content types
SeenAnyType(seen, item) == \E k \in seen : k[1] = item.kinopoisk_id

\* the seen set an item is looked up in: seen_tv_ids or seen_movie_ids
Seen(seen, item) == <<item.kinopoisk_id, item.is_tv>> \in seen

\* search.py 56-60, 79-85, 119-125: results not seen before are appended
RECURSIVE AddResults(_, _)
AddResults(acc, items) ==
    IF Len(items) = 0 THEN acc
    ELSE LET item == items[1] IN
         IF item.kinopoisk_id # 0 /\ ~Seen(acc.seen, item)
         THEN AddResults(
                  [seen |-> acc.seen \cup {<<item.kinopoisk_id, item.is_tv>>},
                   results |-> Append(acc.results, item)], Tail(items))
         ELSE AddResults(acc, Tail(items))

\* search.py 49-62: seeds from the cached lists of the liked items
RECURSIVE SeedCached(_, _, _, _)
SeedCached(acc, rated_movies, cache, t) ==
    IF Len(rated_movies) = 0 THEN acc
    ELSE LET Added(added) ==
                 SeedCached([acc EXCEPT !.seen = added.seen,
                                        !.results = added.results],
                            Tail(rated_movies), cache, t)
             Cached(rated, cached_ids) ==
                 IF cached_ids = None
                 THEN SeedCached([acc EXCEPT !.uncached = Append(@, rated)],
                                 Tail(rated_movies), cache, t)
                 ELSE Added(AddResults(
                          [seen |-> acc.seen, results |-> acc.results],
                          [i \in 1..Len(Take(Val(cached_ids), 10)) |->
                              Basic(Val(cached_ids)[i], rated.is_tv)]))
         IN Cached(rated_movies[1],
                   get_cached_recommendations(cache, rated_movies[1].kinopoisk_id,
                                              rated_movies[1].is_tv, t))

\* search.py 64-87: the lists of the other liked items are fetched and cached
RECURSIVE SeedFetched(_, _, _)
SeedFetched(acc, uncached_rated, t) ==
    IF Len(uncached_rated) = 0 THEN acc
    ELSE LET Added(key, added) ==
                 SeedFetched(
                     [seen |-> added.seen, results |-> added.results,
                      cache |-> save_cached_recommendations(
                                    acc.cache, key[1], key[2],
                                    RecIds(ProviderIds(key)), t)],
                     Tail(uncached_rated), t)
             Fetched(key) ==
                 Added(key, AddResults(
                                [seen |-> acc.seen, results |-> acc.results],
                                Take(TMDBRecommendations(key), 10)))
         IN Fetched(<<uncached_rated[1].kinopoisk_id, uncached_rated[1].is_tv>>)

\* _map_movie_genres_to_tv (search.py 167-196)
TvGenre(gid) ==
    CASE gid = 28 -> 10759
      [] gid = 12 -> 10759
      [] gid = 18 -> 18
      [] OTHER -> 0

RECURSIVE _map_movie_genres_to_tv(_, _)
_map_movie_genres_to_tv(movie_genre_ids, tv_genres) ==
    IF Len(movie_genre_ids) = 0 THEN tv_genres
    ELSE LET Mapped(tv_gid) ==
                 _map_movie_genres_to_tv(
                     Tail(movie_genre_ids),
                     IF tv_gid # 0 /\ ~Contains(tv_genres, tv_gid)
                     THEN Append(tv_genres, tv_gid) ELSE tv_genres)
         IN Mapped(TvGenre(movie_genre_ids[1]))

\* search.py 92-102: the branches of the fan-out
Pages == <<1, 2, 3>>

ApiTasks(query_words, genre_ids) ==
    LET Task(kind, arg, pg) == [kind |-> kind, arg |-> arg, pg |-> pg]
        RECURSIVE Discover(_, _)
        Discover(pgs, tv_genres) ==
            IF Len(pgs) = 0 THEN <<>>
            ELSE <<Task("discover_movie", genre_ids, pgs[1])>>
                 \o (IF Len(tv_genres) > 0
                     THEN <<Task("discover_tv", tv_genres, pgs[1])>> ELSE <<>>)
                 \o Discover(Tail(pgs), tv_genres)
        RECURSIVE Words(_)
        Words(ws) ==
            IF Len(ws) = 0 THEN <<>>
            ELSE [i \in 1..Len(Pages) |-> Task("search", ws[1], Pages[i])]
                 \o Words(Tail(ws))
    IN (IF Len(genre_ids) > 0
        THEN Discover(Pages, _map_movie_genres_to_tv(genre_ids, <<>>))
        ELSE <<>>)
       \o Words(query_words)

\* what the provider answers to a branch
TaskResult(task) ==
    CASE task.kind = "discover_movie" -> discover_by_genre(task.arg, task.pg)
      [] task.kind = "discover_tv" -> discover_tv_by_genre(task.arg, task.pg)
      [] OTHER -> search_by_keyword(task.arg, task.pg)

\* a variant of BranchItems in which one failed branch empties them all
BranchItemsAbortAll(task, failed) ==
    IF failed # {} THEN <<>> ELSE TaskResult(task)

\* search.py 117-127: future.result() of a failed branch raises and the
\* branch is passed over
BranchItems(task, failed) ==
    IF task \in failed THEN <<>> ELSE TaskResult(task)

RECURSIVE MergeBranches(_, _, _)
MergeBranches(acc, branches, failed) ==
    IF Len(branches) = 0 THEN acc
    ELSE MergeBranches(AddResults(acc, BranchItems(branches[1], failed)),
                       Tail(branches), failed)

\* Movie.genres_display / directors_display / actors_display (models.py
\* 157-169)
Display(names) == Join(<<",", " ">>, names)

DirectorNames(ds, m) ==
    [i \in 1..Len(m.director_list) |-> ds[m.director_list[i]].name]

ActorNames(acs, m) ==
    [i \in 1..Len(m.actor_list) |-> acs[m.actor_list[i]].name]

\* _get_searchable_text (search.py 582-598)
_get_searchable_text(m, ds, acs) ==
    LET Present(o) == o # None /\ Len(Val(o)) > 0
        parts ==
            (IF Len(m.title) > 0 THEN <<Lower(m.title)>> ELSE <<>>)
         \o (IF Present(m.title_original)
             THEN <<Lower(Val(m.title_original))>> ELSE <<>>)
         \o (IF Len(m.genre_list) > 0
             THEN <<Lower(Display(m.genre_list))>> ELSE <<>>)
         \o (IF Len(m.director_list) > 0
             THEN <<Lower(Display(DirectorNames(ds, m)))>> ELSE <<>>)
         \o (IF Len(m.actor_list) > 0
             THEN <<Lower(Display(ActorNames(acs, m)))>> ELSE <<>>)
         \o (IF Present(m.description)
             THEN <<Lower(Val(m.description))>> ELSE <<>>)
    IN Join(<<" ">>, parts)

\* a variant of _matches_all_words that is content with one word
_matches_any_word(m, ds, acs, query_words) ==
    LET In(searchable_text) ==
            \E i \in 1..Len(query_words) :
                IsSubstring(query_words[i], searchable_text)
    IN In(_get_searchable_text(m, ds, acs))

\* _matches_all_words (search.py 543-551)
_matches_all_words(m, ds, acs, query_words) ==
    LET In(searchable_text) ==
            \A i \in 1..Len(query_words) :
                IsSubstring(query_words[i], searchable_text)
    IN In(_get_searchable_text(m, ds, acs))

\* the genre_names table of _matches_genres (search.py 562-571)
genre_names(genre_id) ==
    CASE genre_id = 28 -> <<"b", "o", "e", "v", "i", "k">>
      [] genre_id = 12 -> <<"p", "r", "i", "k", "l", "y", "u", "c", "h", "e", "n", "i", "y", "a">>
      [] genre_id = 18 -> <<"d", "r", "a", "m", "a">>
      [] genre_id = 27 -> <<"u", "z", "h", "a", "s", "y">>
      [] genre_id = 10759 -> <<"b", "o", "e", "v", "i", "k">>
      [] OTHER -> <<>>

\* _matches_genres (search.py 553-580)
_matches_genres(m, genre_ids) ==
    /\ Len(m.genre_list) > 0
    /\ \A i \in 1..Len(genre_ids) :
           LET genre_name == genre_names(genre_ids[i]) IN
           Len(genre_name) > 0 =>
               genre_name \in {Lower(m.genre_list[j]) :
                                   j \in 1..Len(m.genre_list)}

\* search_local_movies (db.py 478-525): the rows one of whose fields, genre
\* names, director names or actor names contains the word
search_local_movies(ms, ds, acs, word) ==
    LET Like(text) == IsSubstring(Lower(word), Lower(text))
        LikeOpt(o) == o # None /\ Like(Val(o))
        Hit(m) ==
            \/ Like(m.title) \/ LikeOpt(m.title_original)
            \/ LikeOpt(m.description)
            \/ \E i \in 1..Len(m.genre_list) : Like(m.genre_list[i])
            \/ \E i \in 1..Len(m.director_list) : Like(DirectorNames(ds, m)[i])
            \/ \E i \in 1..Len(m.actor_list) : Like(ActorNames(acs, m)[i])
    IN RowsById({m \in ms : Hit(m)})

\* search.py 130-140: local rows not seen before join all_movies
RECURSIVE LocalSearch(_, _, _, _, _)
LocalSearch(acc, ms, ds, acs, query_words) ==
    IF Len(query_words) = 0 THEN acc
    ELSE LET Added(added) ==
                 LocalSearch([seen |-> added.seen, all_movies |-> added.results],
                             ms, ds, acs, Tail(query_words))
         IN Added(AddResults([seen |-> acc.seen, results |-> acc.all_movies],
                             search_local_movies(ms, ds, acs, query_words[1])))

\* _load_movies_parallel (search.py 212-228): stored rows with directors are
\* taken as they are, the other results are to be loaded
StoredWithDirectors(ms, result) ==
    LET Usable(existing_movie) ==
            existing_movie # None /\ Len(Val(existing_movie).director_list) > 0
    IN Usable(get_movie_by_kp_id(ms, result.kinopoisk_id, result.is_tv))

\* the sort key without ratings (search.py 611): m.tmdb_rating or 0
NoHistoryKey(m) == IF Truthy(m.tmdb_rating) THEN Val(m.tmdb_rating) ELSE RZero

\* scored_movies of _sort_by_user_preference (search.py 613-617): entries
\* [key: the score, item: the row id], and the cache tiers afterwards
RECURSIVE ScoreAll(_, _, _, _, _, _, _, _, _)
ScoreAll(ids, scored, ms, urs, gs, ds, acs, tiers, t) ==
    IF Len(ids) = 0 THEN [scored |-> scored, mem |-> tiers.mem,
                          cache |-> tiers.cache]
    ELSE LET Scored(r) ==
                 ScoreAll(Tail(ids),
                          Append(scored, [key |-> r.score, item |-> ids[1]]),
                          ms, urs, gs, ds, acs,
                          [mem |-> r.mem, cache |-> r.cache], t)
         IN Scored(calculate_score(MovieById(ms, ids[1]), ms, urs, gs, ds, acs,
                                   tiers.mem, tiers.cache, t))

\* a variant of SortByScore without reverse=True
SortByScoreAscending(scored) == StableSort(scored)

\* scored_movies.sort(key=score, reverse=True) (search.py 620)
SortByScore(scored) ==
    StableSort([i \in 1..Len(scored) |->
                   [scored[i] EXCEPT !.key = RSub(RZero, @)]])

\* _sort_by_user_preference (search.py 600-622) over row ids: the sorted
\* ids and the cache tiers afterwards
_sort_by_user_preference(ids, ms, urs, gs, ds, acs, mem, cache, t) ==
    LET Items(sorted) == [i \in 1..Len(sorted) |-> sorted[i].item]
        Sorted(all) == [movies |-> Items(SortByScore(all.scored)),
                        mem |-> all.mem, cache |-> all.cache]
    IN IF Len(ids) = 0 \/ ~has_user_ratings(urs)
       THEN [movies |-> SortedDesc(
                            [i \in 1..Len(ids) |->
                                [key |-> NoHistoryKey(MovieById(ms, ids[i])),
                                 item |-> ids[i]]]),
             mem |-> mem, cache |-> cache]
       ELSE Sorted(ScoreAll(ids, <<>>, ms, urs, gs, ds, acs,
                            [mem |-> mem, cache |-> cache], t))

-----------------------------------------------------------------------------
(* The search entry point and what follows it in the application.          *)

\* the most branches of one fan-out that fail
MaxFailed == 1

\* what the user types and selects (search_bar.py GENRES)
Queries == {<<>>, <<"A", " ", "b", "b">>, <<"d", "u">>}
GenreChoices == {<<>>, <<18>>, <<28>>, <<18, 27>>}

SearchRet(ids, query_words, genre_ids, failed) ==
    [op |-> "search", key |-> <<0, FALSE>>,
     value |-> [movies |-> ids, query_words |-> query_words,
                genres |-> genre_ids, failed |-> failed]]

\* search.py 130-165 over the merged provider results in the order the
\* loads complete: local search, loading, the two filters and the sort
Finish(query_words, genre_ids, merged, to_load, cache) ==
    LET Kept(db, id) ==
            /\ Len(query_words) > 0 =>
                   _matches_all_words(MovieById(db.movies, id), db.directors,
                                      db.actors, query_words)
            /\ Len(genre_ids) > 0 =>
                   _matches_genres(MovieById(db.movies, id), genre_ids)
        Sorted(db, all_movies) ==
            [db |-> db,
             sorted |-> _sort_by_user_preference(
                            SelectSeq(all_movies, LAMBDA id : Kept(db, id)),
                            db.movies, user_ratings, genres, db.directors,
                            db.actors, memory_cache, cache, now)]
        Loaded(local, stored, loaded) ==
            Sorted(loaded.db,
                   [i \in 1..Len(local) |-> local[i].id]
                   \o [i \in 1..Len(stored) |->
                          Val(get_movie_by_kp_id(loaded.db.movies,
                                                 stored[i].kinopoisk_id,
                                                 stored[i].is_tv)).id]
                   \o loaded.movies)
    IN Loaded(LocalSearch([seen |-> merged.seen, all_movies |-> <<>>],
                          movies, directors, actors, query_words).all_movies,
              SelectSeq(merged.results,
                        LAMBDA r : StoredWithDirectors(movies, r)),
              LoadItems([movies |-> movies, directors |-> directors,
                         actors |-> actors],
                        [i \in 1..Len(to_load) |->
                            <<to_load[i].kinopoisk_id, to_load[i].is_tv>>],
                        <<>>))

\* search_movies(session, query, genres=genres, skip_ratings=True), with the
\* branches in failed raising
Search(query, genre_ids) ==
    /\ ret = NoRet
    /\ \E query_words \in {QueryWords(query)} :
       IF Len(query_words) = 0 /\ Len(genre_ids) = 0
       THEN /\ ret' = SearchRet(<<>>, query_words, genre_ids, {})
            /\ UNCHANGED <<movies, directors, actors, rec_cache, memory_cache>>
       ELSE \E seeded \in {SeedCached(
                               [seen |-> {}, results |-> <<>>, uncached |-> <<>>],
                               Take(get_rated_movies(movies, user_ratings, 6), 10),
                               rec_cache, now)},
               answering \in {SelectSeq(ApiTasks(query_words, genre_ids),
                                        LAMBDA b : Len(TaskResult(b)) > 0)} :
            \E failed \in SUBSET Range(answering),
               p1 \in Orders(Len(seeded.uncached)) :
            /\ Cardinality(failed) <= MaxFailed
            /\ \E fetched \in {SeedFetched([seen |-> seeded.seen,
                                            results |-> seeded.results,
                                            cache |-> rec_cache],
                                           Permuted(seeded.uncached, p1), now)},
                  p2 \in Orders(Len(answering)) :
               \E merged \in {MergeBranches([seen |-> fetched.seen,
                                             results |-> fetched.results],
                                            Permuted(answering, p2), failed)} :
               \E to_load \in {SelectSeq(merged.results,
                                   LAMBDA r : ~StoredWithDirectors(movies, r))} :
               \E p3 \in Orders(Len(to_load)) :
               \E done \in {Finish(query_words, genre_ids, merged,
                                   Permuted(to_load, p3), fetched.cache)} :
                  /\ movies' = done.db.movies
                  /\ directors' = done.db.directors
                  /\ actors' = done.db.actors
                  /\ rec_cache' = done.sorted.cache
                  /\ memory_cache' = done.sorted.mem
                  /\ ret' = SearchRet(done.sorted.movies, query_words,
                                      genre_ids, failed)
    /\ UNCHANGED <<user_ratings, genres, now, last_put, tasks,
                   wishlist, shutdown, disabled, trace>>

\* MDBList ratings put on a row (search.py 297-310)
WithExternalRatings(m) ==
    LET ratings == MDBListRatings(<<m.kinopoisk_id, m.is_tv>>) IN
    [m EXCEPT !.imdb_rating = IF ratings.imdb # None THEN ratings.imdb ELSE @,
              !.rotten_tomatoes = IF ratings.rotten_tomatoes # None
                                  THEN ratings.rotten_tomatoes ELSE @,
              !.metacritic = IF ratings.metacritic # None
                             THEN ratings.metacritic ELSE @]

\* _load_ratings_background (app.py 1057-1081): fetch_missing_ratings for
\* the displayed result, after which the result has been taken
LoadRatings ==
    /\ ret.op = "search"
    /\ movies' = {IF Contains(ret.value.movies, m.id) /\ m.imdb_rating = None
                  THEN WithExternalRatings(m) ELSE m : m \in movies}
    /\ ret' = NoRet
    /\ UNCHANGED <<user_ratings, genres, directors, actors, rec_cache,
                   memory_cache, now, last_put, tasks,
                   wishlist, shutdown, disabled, trace>>

\* the most ratings the user gives
MaxRated == 1

\* the ratings the user gives
RatingValues == {4, 9}

\* _handle_rating_change (app.py 400-427) run to its end: save_user_rating,
\* then update_entity_ratings_for_movie
Rate(m, rating) ==
    /\ ret = NoRet
    /\ \/ get_user_rating(user_ratings, m.id) # None
       \/ Cardinality(user_ratings) < MaxRated
    /\ user_ratings' = save_user_rating(user_ratings, m.id, rating, None)
    /\ wishlist' = wishlist \ {m.id}
    /\ genres' = UpdatedGenres(genres, movies, user_ratings', m)
    /\ directors' = UpdatedDirectors(directors, movies, user_ratings', m)
    /\ actors' = UpdatedActors(actors, movies, user_ratings', m)
    /\ UNCHANGED <<movies, rec_cache, memory_cache, now, last_put, tasks, ret,
                   shutdown, disabled, trace>>

Init ==
    /\ movies = {}
    /\ user_ratings = {}
    /\ genres = SeededGenres
    /\ directors = <<>>
    /\ actors = <<>>
    /\ rec_cache = {}
    /\ memory_cache = <<>>
    /\ now = 0
    /\ last_put = [k \in CacheKeys |-> None]
    /\ wishlist = {}
    /\ shutdown = FALSE
    /\ disabled = [p \in Providers |-> FALSE]
    /\ trace = <<>>
    /\ tasks = <<>>
    /\ ret = NoRet

Next ==
    \/ \E query \in Queries, genre_ids \in GenreChoices : Search(query, genre_ids)
    \/ LoadRatings
    \/ \E m \in movies, rating \in RatingValues : Rate(m, rating)

Spec == Init /\ [][Next]_vars

-----------------------------------------------------------------------------
(* Concurrent hydrations: save_movie (db.py 135-179) run by several tasks, *)
(* each in a session of its own (app.py get_session), interleaved at the   *)
(* awaits.  The store is SQLite (db.py 30): a session that has flushed an  *)
(* INSERT holds the write lock until it commits or rolls back, and the     *)
(* write of another session waits for the lock; reads see what is          *)
(* committed.                                                              *)

\* the most hydrations in flight
MaxTasks == 2

IdleTask == [pc |-> "idle", key |-> <<0, FALSE>>, existing |-> None,
             conflict |-> FALSE, movie |-> None]

\* a variant of UniqueViolation for a table without the constraint
ConstraintDropped(ms, k) == FALSE

\* UniqueConstraint('kinopoisk_id', 'is_tv') (models.py 125-129) on an
\* INSERT of a row with the identity k
UniqueViolation(ms, k) == get_movie_by_kp_id(ms, k[1], k[2]) # None

\* no other session holds the write lock
LockFree(t) == \A u \in DOMAIN tasks : u # t => tasks[u].pc # "flushed"

\* db.py 145: movie = await get_movie_by_kp_id(session, kinopoisk_id, is_tv)
Begin(t, k) ==
    /\ tasks[t].pc = "idle"
    /\ tasks' = [tasks EXCEPT ![t] =
                    [IdleTask EXCEPT !.pc = "got", !.key = k,
                                     !.existing =
                                         get_movie_by_kp_id(movies, k[1], k[2])]]
    /\ UNCHANGED <<movies, user_ratings, genres, directors, actors, rec_cache,
                   memory_cache, now, last_put, ret,
                   wishlist, shutdown, disabled, trace>>

\* db.py 153-155: session.add(movie); await session.flush().  The INSERT
\* raises IntegrityError when a row with the identity has been committed
Flush(t) ==
    /\ tasks[t].pc = "got"
    /\ tasks[t].existing = None
    /\ LockFree(t)
    /\ tasks' = [tasks EXCEPT ![t] =
                    IF UniqueViolation(movies, tasks[t].key)
                    THEN [@ EXCEPT !.pc = "failed", !.conflict = TRUE]
                    ELSE [@ EXCEPT !.pc = "flushed"]]
    /\ UNCHANGED <<movies, user_ratings, genres, directors, actors, rec_cache,
                   memory_cache, now, last_put, ret,
                   wishlist, shutdown, disabled, trace>>

\* db.py 156-172: the attributes of a row that was found are set, the M2M
\* relationships are set and the session commits; a relationship that
\* raises leaves nothing committed
Commit(t) ==
    /\ \/ tasks[t].pc = "flushed"
       \/ tasks[t].pc = "got" /\ tasks[t].existing # None /\ LockFree(t)
    /\ \E saved \in {SaveWith([movies |-> movies, directors |-> directors,
                               actors |-> actors],
                              Val(TMDBDetails(tasks[t].key)),
                              tasks[t].existing)} :
           /\ movies' = saved.db.movies
           /\ directors' = saved.db.directors
           /\ actors' = saved.db.actors
           /\ tasks' = [tasks EXCEPT ![t] =
                           IF saved.raised THEN [@ EXCEPT !.pc = "failed"]
                           ELSE [@ EXCEPT !.pc = "returned",
                                          !.movie = saved.movie]]
    /\ UNCHANGED <<user_ratings, genres, rec_cache, memory_cache, now,
                   last_put, ret,
                   wishlist, shutdown, disabled, trace>>

\* db.py 173-177: rollback, the row is looked up again, and the exception
\* is raised again when there is none
Recover(t) ==
    /\ tasks[t].pc = "failed"
    /\ \E movie \in {get_movie_by_kp_id(movies, tasks[t].key[1],
                                        tasks[t].key[2])} :
           tasks' = [tasks EXCEPT ![t] =
                        [@ EXCEPT !.pc = IF movie = None THEN "raised"
                                         ELSE "returned",
                                  !.movie = movie]]
    /\ UNCHANGED <<movies, user_ratings, genres, directors, actors, rec_cache,
                   memory_cache, now, last_put, ret,
                   wishlist, shutdown, disabled, trace>>

\* the caller has the row or the exception
Return(t) ==
    /\ tasks[t].pc \in {"returned", "raised"}
    /\ tasks' = [tasks EXCEPT ![t] = IdleTask]
    /\ UNCHANGED <<movies, user_ratings, genres, directors, actors, rec_cache,
                   memory_cache, now, last_put, ret,
                   wishlist, shutdown, disabled, trace>>

InitHydrate ==
    /\ movies = {}
    /\ user_ratings = {}
    /\ genres = SeededGenres
    /\ directors = <<>>
    /\ actors = <<>>
    /\ rec_cache = {}
    /\ memory_cache = <<>>
    /\ now = 0
    /\ last_put = [k \in CacheKeys |-> None]
    /\ wishlist = {}
    /\ shutdown = FALSE
    /\ disabled = [p \in Providers |-> FALSE]
    /\ trace = <<>>
    /\ tasks = [t \in 1..MaxTasks |-> IdleTask]
    /\ ret = NoRet

NextHydrate ==
    \E t \in 1..MaxTasks :
        \/ \E k \in MovieKeys : Begin(t, k)
        \/ Flush(t)
        \/ Commit(t)
        \/ Recover(t)
        \/ Return(t)

SpecHydrate == InitHydrate /\ [][NextHydrate]_vars

-----------------------------------------------------------------------------
(* The rating entry points of the application (app.py 400-450, 1023-1047). *)
(* Each runs as a background task; tasks holds the entry points whose      *)
(* rating is saved and whose follow-up, update_entity_ratings_for_movie in *)
(* a session of its own, is still to run.                                  *)

\* the review the user writes
Reviews == {<<"a", "b">>}

Finished(op, movie_id) ==
    [op |-> op, key |-> <<0, FALSE>>, value |-> Some(movie_id)]

\* _handle_rating_change.do_save up to the end of its first session
\* (app.py 410-413)
RateSave(m, rating) ==
    /\ Len(tasks) < MaxTasks
    /\ \/ get_user_rating(user_ratings, m.id) # None
       \/ Cardinality(user_ratings) < MaxRated
    /\ user_ratings' = save_user_rating(user_ratings, m.id, rating, None)
    /\ tasks' = Append(tasks, [op |-> "rate", movie_id |-> m.id])
    /\ wishlist' = wishlist \ {m.id}
    /\ ret' = NoRet
    /\ UNCHANGED <<movies, genres, directors, actors, rec_cache, memory_cache,
                   now, last_put,
                   shutdown, disabled, trace>>

\* _handle_rating_delete.do_delete up to the end of its first session
\* (app.py 436-441): without a rating to delete it returns
DeleteSave(m) ==
    /\ Len(tasks) < MaxTasks
    /\ user_ratings' = delete_user_rating(user_ratings, m.id)
    /\ IF get_user_rating(user_ratings, m.id) = None
       THEN tasks' = tasks /\ ret' = NoRet
       ELSE /\ tasks' = Append(tasks, [op |-> "delete", movie_id |-> m.id])
            /\ ret' = NoRet
    /\ UNCHANGED <<movies, genres, directors, actors, rec_cache, memory_cache,
                   now, last_put,
                   wishlist, shutdown, disabled, trace>>

\* the second session of do_save and do_delete (app.py 414-416, 442-444):
\* update_entity_ratings_for_movie (db.py 343-352), after which the entry
\* point has finished
FollowUp(i) ==
    /\ i \in 1..Len(tasks)
    /\ \E movie \in {MovieById(movies, tasks[i].movie_id)} :
           /\ genres' = UpdatedGenres(genres, movies, user_ratings, movie)
           /\ directors' = UpdatedDirectors(directors, movies, user_ratings,
                                            movie)
           /\ actors' = UpdatedActors(actors, movies, user_ratings, movie)
    /\ tasks' = SubSeq(tasks, 1, i - 1) \o SubSeq(tasks, i + 1, Len(tasks))
    /\ ret' = Finished(tasks[i].op, tasks[i].movie_id)
    /\ UNCHANGED <<movies, user_ratings, rec_cache, memory_cache, now,
                   last_put,
                   wishlist, shutdown, disabled, trace>>

\* _handle_review_save.do_save (app.py 1025-1045): the rating the item has,
\* or 5, is saved with the review; nothing follows
ReviewSave(m, review) ==
    /\ \/ get_user_rating(user_ratings, m.id) # None
       \/ Cardinality(user_ratings) < MaxRated
    /\ \E existing_rating \in {get_user_rating(user_ratings, m.id)} :
           user_ratings' =
               save_user_rating(user_ratings, m.id,
                                IF existing_rating # None
                                THEN Val(existing_rating).rating ELSE 5,
                                Some(review))
    /\ wishlist' = wishlist \ {m.id}
    /\ ret' = Finished("review", m.id)
    /\ UNCHANGED <<movies, genres, directors, actors, rec_cache, memory_cache,
                   now, last_put, tasks,
                   shutdown, disabled, trace>>

\* the hydrated catalogue, with no ratings yet
InitRate ==
    /\ movies = HydratedDB.movies
    /\ user_ratings = {}
    /\ genres = SeededGenres
    /\ directors = HydratedDB.directors
    /\ actors = HydratedDB.actors
    /\ rec_cache = {}
    /\ memory_cache = <<>>
    /\ now = 0
    /\ last_put = [k \in CacheKeys |-> None]
    /\ wishlist = {}
    /\ shutdown = FALSE
    /\ disabled = [p \in Providers |-> FALSE]
    /\ trace = <<>>
    /\ tasks = <<>>
    /\ ret = NoRet

NextRate ==
    \/ \E m \in movies, rating \in RatingValues : RateSave(m, rating)
    \/ \E m \in movies : DeleteSave(m)
    \/ \E i \in 1..MaxTasks : FollowUp(i)
    \/ \E m \in movies, review \in Reviews : ReviewSave(m, review)

SpecRate == InitRate /\ [][NextRate]_vars

-----------------------------------------------------------------------------
(* Genre normalization on its own: normalize_genres_async over genre       *)
(* strings built from the names and aliases of the seeded table, the keys  *)
(* of COMBINED_GENRES and words the table does not know, in three letter   *)
(* cases, with and without surrounding blanks, alone and in lists.         *)

SeedAliases == UNION {Aliases(GENRE_SEED_DATA[i]) : i \in 1..Len(GENRE_SEED_DATA)}

CombinedKeys == {COMBINED_GENRES[i].key : i \in 1..Len(COMBINED_GENRES)}

\* words that are no name, alias or key
UnknownWords == {<<>>, <<"x", "y", "z">>, <<"d", "r", "a", "m">>, <<"i">>, <<"&">>, <<"f", "i", "l", "m">>}

GenreWords == GenreNames \cup SeedAliases \cup CombinedKeys \cup UnknownWords

Cased(w) == {w, Capitalize(w), Upper(w)}

Padded(w) == {w, <<" ">> \o w, w \o <<" ">>, <<" ">> \o w \o <<" ", " ">>}

\* a genre string of one segment
SingleInputs ==
    {[words |-> <<w>>, sep |-> <<",">>, text |-> t] :
         <<w, t>> \in UNION {{w} \X UNION {Padded(c) : c \in Cased(w)} :
                             w \in GenreWords}}

\* a genre string of two segments
ListInputs ==
    {[words |-> <<a, b>>, sep |-> sep, text |-> ca \o sep \o b] :
         <<a, ca, b, sep>> \in
             UNION {{a} \X Cased(a) \X {<<"d", "r", "a", "m", "a">>, <<"h", "o", "r", "r", "o", "r">>, <<"x", "y", "z">>, <<>>,
                                        <<"a", "c", "t", "i", "o", "n", " ", "&", " ", "a", "d", "v", "e", "n", "t", "u", "r", "e">>}
                        \X {<<",">>, <<",", " ">>, <<" ", "i", " ">>} :
                    a \in {<<"a", "c", "t", "i", "o", "n", " ", "&", " ", "a", "d", "v", "e", "n", "t", "u", "r", "e">>, <<"u", "z", "h", "a", "s", "y">>, <<"a", "d", "v", "e", "n", "t", "u", "r", "e">>,
                           <<"x", "y", "z">>}}}

GenreInputs == SingleInputs \cup ListInputs

\* set_movie_genres (db.py 193-194): normalize_genres_async(genres_string)
Normalize(input) ==
    /\ ret' = [op |-> "normalize", key |-> input,
               value |-> normalize_genres(input.text)]
    /\ UNCHANGED <<movies, user_ratings, genres, directors, actors, rec_cache,
                   memory_cache, now, last_put, tasks,
                   wishlist, shutdown, disabled, trace>>

NextGenre == \E input \in GenreInputs : Normalize(input)

SpecGenre == Init /\ [][NextGenre]_vars
-----------------------------------------------------------------------------
(* The two companions of the search: find_magic_recommendation and         *)
(* find_similar_movies (search.py 624-736), over a hydrated store.         *)

\* _load_movies_parallel (search.py 212-228): the identities submitted to
\* the pool, in the order their loads complete: the order of submission or,
\* when reversed, the opposite order
SubmittedLoads(ms, search_results, reversed) ==
    LET Keys(to_load) ==
            [i \in 1..Len(to_load) |->
                <<to_load[IF reversed THEN Len(to_load) + 1 - i ELSE i].kinopoisk_id,
                  to_load[IF reversed THEN Len(to_load) + 1 - i ELSE i].is_tv>>]
    IN Keys(SelectSeq(search_results,
                      LAMBDA r : r.kinopoisk_id # 0 /\ ~StoredWithDirectors(ms, r)))

\* _load_movies_parallel (search.py 212-220): the stored rows taken as they are
ExistingRows(ms, search_results) ==
    LET Ids(stored) ==
            [i \in 1..Len(stored) |->
                Val(get_movie_by_kp_id(ms, stored[i].kinopoisk_id,
                                       stored[i].is_tv)).id]
    IN Ids(SelectSeq(search_results,
                     LAMBDA r : r.kinopoisk_id # 0 /\ StoredWithDirectors(ms, r)))

\* the MDBList ratings of skip_ratings=False: on the rows that were loaded
\* (search.py 424-432) and on the stored rows without an IMDb rating
\* (search.py 221-223, 247-248)
WithFetchedRatings(ms, existing, loaded) ==
    [db |-> [movies |->
                 {IF \/ m.id \in Range(loaded.movies)
                     \/ /\ m.id \in Range(existing)
                        /\ MovieById(ms, m.id).imdb_rating = None
                  THEN WithExternalRatings(m) ELSE m : m \in loaded.db.movies},
             directors |-> loaded.db.directors,
             actors |-> loaded.db.actors],
     movies |-> existing \o loaded.movies]

\* _load_movies_parallel(session, search_results) with skip_ratings=False
\* (search.py 198-254): the tables afterwards and the rows returned
_load_movies_parallel(db, search_results, reversed) ==
    WithFetchedRatings(
        db.movies, ExistingRows(db.movies, search_results),
        LoadItems(db, SubmittedLoads(db.movies, search_results, reversed), <<>>))

\* search.py 650-653, 668-674: a recommendation that is neither rated nor
\* seen joins the candidates; acc = [seen, candidates]
RECURSIVE AddCandidates(_, _)
AddCandidates(acc, items) ==
    IF Len(items) = 0 THEN acc
    ELSE IF <<items[1].kinopoisk_id, items[1].is_tv>> \in acc.seen
    THEN AddCandidates(acc, Tail(items))
    ELSE AddCandidates(
             [seen |-> acc.seen \cup {<<items[1].kinopoisk_id, items[1].is_tv>>},
              candidates |-> Append(acc.candidates, items[1])], Tail(items))

\* search.py 643-675 of find_magic_recommendation: the candidates gathered
\* from the lists of the liked items, those cached first, the others as
\* their fetches complete; acc = [seen, candidates, cache]
RECURSIVE MagicCandidates(_, _, _, _)
MagicCandidates(acc, rated_movies, from_cache, t) ==
    IF Len(rated_movies) = 0 THEN acc
    ELSE LET With(key, added) ==
                 MagicCandidates(
                     [seen |-> added.seen, candidates |-> added.candidates,
                      cache |-> IF from_cache THEN acc.cache
                                ELSE save_cached_recommendations(
                                         acc.cache, key[1], key[2],
                                         RecIds(ProviderIds(key)), t)],
                     Tail(rated_movies), from_cache, t)
             Recs(key, cached_ids) ==
                 IF from_cache
                 THEN [i \in 1..Len(Val(cached_ids)) |->
                          Basic(Val(cached_ids)[i], key[2])]
                 ELSE TMDBRecommendations(key)
             Of(key) ==
                 With(key, AddCandidates(
                               [seen |-> acc.seen, candidates |-> acc.candidates],
                               Recs(key, get_cached_recommendations(
                                             acc.cache, key[1], key[2], t))))
         IN Of(<<rated_movies[1].kinopoisk_id, rated_movies[1].is_tv>>)

\* the loop of search.py 689-701: the first row with the greatest score
\* among the rows that are not rated; None when there is none
BestScored(scored) ==
    IF Len(scored) = 0 THEN None
    ELSE LET i == CHOOSE j \in 1..Len(scored) :
                      /\ \A k \in 1..Len(scored) : RLe(scored[k].key, scored[j].key)
                      /\ \A k \in 1..(j - 1) : scored[k].key # scored[j].key
         IN Some(scored[i].item)

\* rated_ids of find_magic_recommendation (search.py 638-639)
RatedKeys(ms, urs) ==
    {<<MovieById(ms, ur.movie_id).kinopoisk_id, MovieById(ms, ur.movie_id).is_tv>> :
        ur \in urs}

\* search.py 714-727 of find_similar_movies: the candidates and the cache
\* afterwards
SimilarCandidates(source_movie, cache, t) ==
    LET key == <<source_movie.kinopoisk_id, source_movie.is_tv>>
        Cached(cached_ids) ==
            IF cached_ids # None
            THEN [candidates |-> [i \in 1..Len(Val(cached_ids)) |->
                                     Basic(Val(cached_ids)[i], source_movie.is_tv)],
                  cache |-> cache]
            ELSE [candidates |-> TMDBRecommendations(key),
                  cache |-> save_cached_recommendations(
                                cache, key[1], key[2], RecIds(ProviderIds(key)), t)]
    IN Cached(get_cached_recommendations(cache, key[1], key[2], t))

-----------------------------------------------------------------------------
(* The companions called on a store with ratings, cached lists and a       *)
(* wishlist.                                                               *)

\* ratings the user has given before the call (0: not rated)
MagicRatings == {0, 5, 6, 9}

\* recommendation lists found in the persistent cache (<<0>>: no row)
MagicRecLists == {<<0>>, <<2>>, <<3, 1>>}

\* the most rows of the wishlist
MaxWish == 1

InitRecommend ==
    \E f \in [{m.id : m \in HydratedDB.movies} -> MagicRatings],
       c \in [{m.id : m \in HydratedDB.movies} -> MagicRecLists] :
        /\ movies = HydratedDB.movies
        /\ user_ratings = RatingTable(f)
        /\ genres = AllGenresUpdated(SeededGenres, movies, user_ratings)
        /\ directors = AllDirectorsUpdated(HydratedDB.directors, movies,
                                           user_ratings)
        /\ actors = AllActorsUpdated(HydratedDB.actors, movies, user_ratings)
        /\ rec_cache = CacheTable(HydratedDB.movies, c)
        /\ memory_cache = <<>>
        /\ now = 0
        /\ last_put = [k \in CacheKeys |-> None]
        /\ wishlist = {}
        /\ shutdown = FALSE
        /\ disabled = [p \in Providers |-> FALSE]
        /\ trace = <<>>
        /\ tasks = <<>>
        /\ ret = NoRet

\* _handle_wishlist_toggle (app.py 452-480) adding: add_to_wishlist
AddToWishlist(m) ==
    /\ ret = NoRet
    /\ m.id \notin wishlist
    /\ Cardinality(wishlist) < MaxWish
    /\ wishlist' = wishlist \cup {m.id}
    /\ UNCHANGED <<movies, user_ratings, genres, directors, actors, rec_cache,
                   memory_cache, now, last_put, tasks, ret,
                   shutdown, disabled, trace>>

\* _handle_magic (app.py 363-395): find_magic_recommendation(session)
\* (search.py 624-704); rev1 and rev2 are the orders in which the fetches
\* and the loads complete.  Without a liked item, without a candidate or
\* without a loaded row there is nothing to choose from and None is returned.
FindMagic(rev1, rev2) ==
    /\ ret = NoRet
    /\ \E rated_movies \in {Take(get_rated_movies(movies, user_ratings, 6), 20)},
          rated_ids \in {RatedKeys(movies, user_ratings)} :
       \E cached \in {SelectSeq(rated_movies,
                          LAMBDA r : get_cached_recommendations(
                                         rec_cache, r.kinopoisk_id, r.is_tv, now)
                                     # None)},
          uncached \in {SelectSeq(rated_movies,
                          LAMBDA r : get_cached_recommendations(
                                         rec_cache, r.kinopoisk_id, r.is_tv, now)
                                     = None)} :
       \E from_cache \in {MagicCandidates(
                              [seen |-> rated_ids, candidates |-> <<>>,
                               cache |-> rec_cache], cached, TRUE, now)} :
       \E gathered \in {MagicCandidates(
                            from_cache,
                            IF rev1 THEN [i \in 1..Len(uncached) |->
                                             uncached[Len(uncached) + 1 - i]]
                            ELSE uncached, FALSE, now)} :
       \E loaded \in {_load_movies_parallel(
                          [movies |-> movies, directors |-> directors,
                           actors |-> actors],
                          Take(gathered.candidates, 50), rev2)} :
       \E all \in {ScoreAll(SelectSeq(loaded.movies,
                                LAMBDA id :
                                    <<MovieById(loaded.db.movies, id).kinopoisk_id,
                                      MovieById(loaded.db.movies, id).is_tv>>
                                        \notin rated_ids),
                            <<>>, loaded.db.movies, user_ratings, genres,
                            loaded.db.directors, loaded.db.actors,
                            [mem |-> memory_cache, cache |-> gathered.cache],
                            now)} :
          /\ movies' = loaded.db.movies
          /\ directors' = loaded.db.directors
          /\ actors' = loaded.db.actors
          /\ memory_cache' = all.mem
          /\ rec_cache' = all.cache
          /\ ret' = [op |-> "magic", key |-> <<0, FALSE>>,
                     value |-> [movie |-> BestScored(all.scored),
                                scored |-> all.scored]]
    /\ UNCHANGED <<user_ratings, genres, now, last_put, tasks,
                   wishlist, shutdown, disabled, trace>>

\* find_similar_movies(session, source_movie) (search.py 706-736); without
\* a candidate there is nothing to load or sort and [] is returned
FindSimilar(m, reversed) ==
    /\ ret = NoRet
    /\ \E found \in {SimilarCandidates(m, rec_cache, now)} :
       \E loaded \in {_load_movies_parallel(
                          [movies |-> movies, directors |-> directors,
                           actors |-> actors],
                          Take(found.candidates, 40), reversed)} :
       \E sorted \in {_sort_by_user_preference(
                          loaded.movies, loaded.db.movies, user_ratings, genres,
                          loaded.db.directors, loaded.db.actors, memory_cache,
                          found.cache, now)} :
          /\ movies' = loaded.db.movies
          /\ directors' = loaded.db.directors
          /\ actors' = loaded.db.actors
          /\ memory_cache' = sorted.mem
          /\ rec_cache' = sorted.cache
          /\ ret' = [op |-> "similar", key |-> <<m.kinopoisk_id, m.is_tv>>,
                     value |-> sorted.movies]
    /\ UNCHANGED <<user_ratings, genres, now, last_put, tasks,
                   wishlist, shutdown, disabled, trace>>

NextRecommend ==
    \/ \E m \in movies : AddToWishlist(m)
    \/ \E rev1 \in BOOLEAN, rev2 \in BOOLEAN : FindMagic(rev1, rev2)
    \/ \E m \in movies, reversed \in BOOLEAN : FindSimilar(m, reversed)

SpecRecommend == InitRecommend /\ [][NextRecommend]_vars

-----------------------------------------------------------------------------
(* The rating providers (api/mdblist.py, api/omdb.py): calls on the one    *)
(* MDBListAPI and the one OMDBAPI instance of the application, run by the  *)
(* workers of a thread pool, so that a call can begin while another is     *)
(* waiting for its response.                                               *)

\* the most calls in flight, and the most requests and responses recorded
MaxCalls == 2
MaxTrace == 4

\* what a request is answered with: an HTTP status (0: no response, the
\* client raised a transport error) and, for status 200, the kind of body:
\* ratings, a body without ratings, or an error body naming a limit
Responses ==
    {[status |-> 200, body |-> b] : b \in {"ratings", "none", "limit"}}
    \cup {[status |-> s, body |-> "none"] : s \in {0, 401, 403, 429, 500}}

IdleCall == [pc |-> "idle", provider |-> "mdblist"]

\* MDBListAPI.get_ratings_by_tmdb_id after the request (mdblist.py 30-50):
\* the result and _disabled afterwards
MDBListResponse(response, was_disabled) ==
    IF response.status = 200
    THEN [result |-> IF response.body = "ratings" THEN "ratings" ELSE "empty",
          disabled |-> was_disabled]
    ELSE IF response.status \in {401, 403}
    THEN [result |-> "empty", disabled |-> TRUE]
    ELSE IF response.status = 429
    THEN [result |-> "empty", disabled |-> TRUE]
    ELSE [result |-> "empty", disabled |-> was_disabled]

\* OMDBAPI.get_ratings_by_imdb_id after the request (omdb.py 38-53)
OMDBResponse(response, was_disabled) ==
    IF response.status = 200
    THEN IF response.body = "ratings"
         THEN [result |-> "ratings", disabled |-> was_disabled]
         ELSE [result |-> "empty",
               disabled |-> was_disabled \/ response.body = "limit"]
    ELSE IF response.status \in {401, 403}
    THEN [result |-> "empty", disabled |-> TRUE]
    ELSE [result |-> "empty", disabled |-> was_disabled]

RatingsRet(p, result, requested) ==
    [op |-> "ratings", key |-> <<0, FALSE>>,
     value |-> [provider |-> p, result |-> result, requested |-> requested]]

\* mdblist.py 20-29, omdb.py 29-37: the guard of a call and, when it
\* passes, the request
BeginCall(t, p, has_id) ==
    /\ tasks[t].pc = "idle"
    /\ Len(trace) < MaxTrace
    /\ IF ~has_id \/ disabled[p]
       THEN /\ ret' = RatingsRet(p, "empty", FALSE)
            /\ UNCHANGED <<tasks, trace>>
       ELSE /\ tasks' = [tasks EXCEPT ![t] = [pc |-> "sent", provider |-> p]]
            /\ trace' = Append(trace, [kind |-> "request", provider |-> p,
                                       status |-> 0])
            /\ UNCHANGED ret
    /\ UNCHANGED <<movies, user_ratings, genres, directors, actors, rec_cache,
                   memory_cache, now, last_put, wishlist, shutdown, disabled>>

\* mdblist.py 30-50, omdb.py 38-53: the response is handled and the call
\* returns
EndCall(t, response) ==
    /\ tasks[t].pc = "sent"
    /\ \E p \in {tasks[t].provider} :
       \E done \in {IF p = "mdblist"
                    THEN MDBListResponse(response, disabled[p])
                    ELSE OMDBResponse(response, disabled[p])} :
          /\ disabled' = [disabled EXCEPT ![p] = done.disabled]
          /\ ret' = RatingsRet(p, done.result, TRUE)
          /\ trace' = Append(trace, [kind |-> "response", provider |-> p,
                                     status |-> response.status])
    /\ tasks' = [tasks EXCEPT ![t] = IdleCall]
    /\ UNCHANGED <<movies, user_ratings, genres, directors, actors, rec_cache,
                   memory_cache, now, last_put, wishlist, shutdown>>

InitProvider ==
    /\ movies = {}
    /\ user_ratings = {}
    /\ genres = <<>>
    /\ directors = <<>>
    /\ actors = <<>>
    /\ rec_cache = {}
    /\ memory_cache = <<>>
    /\ now = 0
    /\ last_put = [k \in CacheKeys |-> None]
    /\ wishlist = {}
    /\ shutdown = FALSE
    /\ disabled = [p \in Providers |-> FALSE]
    /\ trace = <<>>
    /\ tasks = [t \in 1..MaxCalls |-> IdleCall]
    /\ ret = NoRet

NextProvider ==
    \/ \E t \in 1..MaxCalls, p \in Providers, has_id \in BOOLEAN :
           BeginCall(t, p, has_id)
    \/ \E t \in 1..MaxCalls, response \in Responses : EndCall(t, response)

SpecProvider == InitProvider /\ [][NextProvider]_vars

-----------------------------------------------------------------------------
(* Background rating enrichment: _load_ratings_background (app.py          *)
(* 1057-1081) calling fetch_missing_ratings (search.py 256-333) for the    *)
(* rows of a displayed result, while the window may be closed              *)
(* (app.py 82-84).  The provider calls run on the workers of a pool of 5,  *)
(* so a call starts when it is submitted as long as no more than 5 rows    *)
(* need ratings.                                                           *)

IdleEnrich == [pc |-> "idle", calls |-> {}, results |-> {}]

\* an entry of the history: a provider call started or a row written, and
\* whether the shutdown flag was set at that moment
Event(kind, id) == [kind |-> kind, movie |-> id, flag |-> shutdown]

\* the ids of a set of rows in ascending order
IdsAscending(ms) ==
    LET rows == RowsById(ms) IN [i \in 1..Len(rows) |-> rows[i].id]

\* app.py 82-84: the window is closed
SetShutdown ==
    /\ ~shutdown
    /\ shutdown' = TRUE
    /\ UNCHANGED <<movies, user_ratings, genres, directors, actors, rec_cache,
                   memory_cache, now, last_put, tasks, ret, wishlist, disabled,
                   trace>>

\* app.py 1059-1062: the flag is looked at once and a session is opened
Enter ==
    /\ tasks[1].pc = "idle"
    /\ tasks' = [tasks EXCEPT ![1].pc = IF shutdown THEN "returned"
                                       ELSE "entered"]
    /\ UNCHANGED <<movies, user_ratings, genres, directors, actors, rec_cache,
                   memory_cache, now, last_put, ret, wishlist, shutdown,
                   disabled, trace>>

\* search.py 268-293: the rows without an IMDb rating are selected and a
\* call of _fetch_external_ratings_for_movie is submitted for each
Submit ==
    /\ tasks[1].pc = "entered"
    /\ \E needing \in {{m \in movies : m.imdb_rating = None}} :
       \E ids \in {IdsAscending(needing)} :
          /\ tasks' = [tasks EXCEPT ![1] =
                          [pc |-> IF needing = {} THEN "returned" ELSE "waiting",
                           calls |-> {m.id : m \in needing}, results |-> {}]]
          /\ trace' = trace \o [i \in 1..Len(ids) |-> Event("call", ids[i])]
    /\ UNCHANGED <<movies, user_ratings, genres, directors, actors, rec_cache,
                   memory_cache, now, last_put, ret, wishlist, shutdown,
                   disabled>>

\* a call returns and its future completes
Complete(id) ==
    /\ id \in tasks[1].calls
    /\ tasks' = [tasks EXCEPT ![1].calls = @ \ {id},
                              ![1].results = @ \cup {id}]
    /\ UNCHANGED <<movies, user_ratings, genres, directors, actors, rec_cache,
                   memory_cache, now, last_put, ret, wishlist, shutdown,
                   disabled, trace>>

\* search.py 293-313: one turn of the loop over the completed futures: the
\* flag is checked, then the ratings are put on the row and committed
Handle(id) ==
    /\ tasks[1].pc = "waiting"
    /\ id \in tasks[1].results
    /\ IF shutdown
       THEN /\ tasks' = [tasks EXCEPT ![1].pc = "returned"]
            /\ UNCHANGED <<movies, trace>>
       ELSE \E m \in {MovieById(movies, id)} :
            /\ tasks' = [tasks EXCEPT
                            ![1].results = @ \ {id},
                            ![1].pc = IF tasks[1].calls = {}
                                         /\ tasks[1].results = {id}
                                      THEN "returned" ELSE "waiting"]
            /\ movies' = (movies \ {m}) \cup {WithExternalRatings(m)}
            /\ trace' = IF WithExternalRatings(m) # m
                        THEN Append(trace, Event("write", id)) ELSE trace
    /\ UNCHANGED <<user_ratings, genres, directors, actors, rec_cache,
                   memory_cache, now, last_put, ret, wishlist, shutdown,
                   disabled>>

InitEnrich ==
    \E stored \in SUBSET HydratedDB.movies :
        /\ movies = stored
        /\ user_ratings = {}
        /\ genres = SeededGenres
        /\ directors = HydratedDB.directors
        /\ actors = HydratedDB.actors
        /\ rec_cache = {}
        /\ memory_cache = <<>>
        /\ now = 0
        /\ last_put = [k \in CacheKeys |-> None]
        /\ wishlist = {}
        /\ shutdown = FALSE
        /\ disabled = [p \in Providers |-> FALSE]
        /\ trace = <<>>
        /\ tasks = <<IdleEnrich>>
        /\ ret = NoRet

NextEnrich ==
    \/ SetShutdown
    \/ Enter
    \/ Submit
    \/ \E m \in movies : Complete(m.id)
    \/ \E m \in movies : Handle(m.id)

SpecEnrich == InitEnrich /\ [][NextEnrich]_vars

-----------------------------------------------------------------------------
(* The aggregator consensus of stored items whose external ratings were    *)
(* put on the row by the rating enrichment (search.py 297-310,             *)
(* recommender.py 205-225), with no user rating in the store.              *)

\* partial bundles a rating provider returns: an IMDb rating out of 10,
\* Rotten Tomatoes and Metacritic out of 100, each of them possibly absent
RatingBundles ==
    [imdb : {None, Some(RInt(8)), Some(Rat(13, 2))},
     rotten_tomatoes : {None, Some(0), Some(85)},
     metacritic : {None, Some(0), Some(60)}]

\* a variant of WithRatings that puts every field of the bundle on the row,
\* the missing ones as well
WithRatingsOverwritten(m, ratings) ==
    [m EXCEPT !.imdb_rating = ratings.imdb,
              !.rotten_tomatoes = ratings.rotten_tomatoes,
              !.metacritic = ratings.metacritic]

\* the fields of a bundle put on a row (search.py 299-307, 351-356)
WithRatings(m, ratings) ==
    [m EXCEPT !.imdb_rating = IF ratings.imdb # None THEN ratings.imdb ELSE @,
              !.rotten_tomatoes = IF ratings.rotten_tomatoes # None
                                  THEN ratings.rotten_tomatoes ELSE @,
              !.metacritic = IF ratings.metacritic # None
                             THEN ratings.metacritic ELSE @]

InitConsensus ==
    /\ movies = HydratedDB.movies
    /\ user_ratings = {}
    /\ genres = SeededGenres
    /\ directors = HydratedDB.directors
    /\ actors = HydratedDB.actors
    /\ rec_cache = {}
    /\ memory_cache = <<>>
    /\ now = 0
    /\ last_put = [k \in CacheKeys |-> None]
    /\ wishlist = {}
    /\ shutdown = FALSE
    /\ disabled = [p \in Providers |-> FALSE]
    /\ trace = <<>>
    /\ tasks = <<>>
    /\ ret = NoRet

\* the enrichment of one row that has no IMDb rating (search.py 279,
\* 297-310)
PutRatings(m, ratings) ==
    /\ m.imdb_rating = None
    /\ movies' = (movies \ {m}) \cup {WithRatings(m, ratings)}
    /\ ret' = NoRet
    /\ UNCHANGED <<user_ratings, genres, directors, actors, rec_cache,
                   memory_cache, now, last_put, tasks,
                   wishlist, shutdown, disabled, trace>>

\* RecommenderService._calculate_aggregator_score(movie) and
\* calculate_score(movie, session) for the same row
AggregatorScore(m) ==
    LET r == calculate_score(m, movies, user_ratings, genres, directors,
                             actors, memory_cache, rec_cache, now)
    IN /\ memory_cache' = r.mem
       /\ rec_cache' = r.cache
       /\ ret' = [op |-> "consensus", key |-> <<m.kinopoisk_id, m.is_tv>>,
                  value |-> [consensus |-> _calculate_aggregator_score(m),
                             score |-> r.score]]
       /\ UNCHANGED <<movies, user_ratings, genres, directors, actors, now,
                      last_put, tasks,
                      wishlist, shutdown, disabled, trace>>

NextConsensus ==
    \/ \E m \in movies, ratings \in RatingBundles : PutRatings(m, ratings)
    \/ \E m \in movies : AggregatorScore(m)

SpecConsensus == InitConsensus /\ [][NextConsensus]_vars

-----------------------------------------------------------------------------
(* The thread pools of one search (search.py 89-127, 231-244; tmdb.py      *)
(* 403-487): the pool of the discover and keyword branches, the pool each  *)
(* keyword branch opens for its own requests, and the pool that loads the  *)
(* items found.  A task of a pool holds the requests it has in flight.     *)

\* ThreadPoolExecutor(max_workers=8) of search_movies (search.py 105)
SearchWorkers == 8
\* ThreadPoolExecutor(max_workers=5) of search_by_keyword (tmdb.py 434)
KeywordWorkers == 5
\* ThreadPoolExecutor(max_workers=10) of _load_movies_parallel (search.py 232)
LoadWorkers == 10
\* range(1, 4): the pages of a discover and of a keyword search
SearchPages == 3

\* the most items one search loads
MaxLoad == 11

\* requests the first round of search_by_keyword submits (tmdb.py 416-431):
\* the two title searches and the person search, and a discover for a
\* keyword that names a movie genre, a series genre or both
KeywordRequests == {3, 4, 5}

\* discover tasks per page: none without a genre filter, one when no genre
\* of the filter maps to a series genre, otherwise two (search.py 92-97)
DiscoverPerPage == {0, 1, 2}

\* persons of a person search whose filmographies are fetched (tmdb.py 458)
PersonsFound == {0, 1, 2}

PoolTask(kind, requests) ==
    [kind |-> kind, phase |-> "queued", requests |-> requests, inflight |-> 0]

RECURSIVE InFlightOf(_)
InFlightOf(ts) ==
    IF Len(ts) = 0 THEN 0 ELSE ts[1].inflight + InFlightOf(Tail(ts))

\* requests sent and not yet answered
InFlight == InFlightOf(tasks)

Running(kinds) ==
    {i \in 1..Len(tasks) :
        tasks[i].kind \in kinds /\ tasks[i].phase \in {"first", "person"}}

AllDone == \A i \in 1..Len(tasks) : tasks[i].phase = "done"

\* api_tasks of one search (search.py 90-102): the discover tasks, then the
\* keyword searches of one query word
PoolTasks(discovers, requests) ==
    [i \in 1..(SearchPages * discovers) |-> PoolTask("discover", 1)]
        \o [i \in 1..SearchPages |-> PoolTask("search", requests)]

InitFanout ==
    \E discovers \in DiscoverPerPage, requests \in KeywordRequests :
        /\ movies = HydratedDB.movies
        /\ user_ratings = {}
        /\ genres = SeededGenres
        /\ directors = HydratedDB.directors
        /\ actors = HydratedDB.actors
        /\ rec_cache = {}
        /\ memory_cache = <<>>
        /\ now = 0
        /\ last_put = [k \in CacheKeys |-> None]
        /\ wishlist = {}
        /\ shutdown = FALSE
        /\ disabled = [p \in Providers |-> FALSE]
        /\ trace = <<>>
        /\ tasks = PoolTasks(discovers, requests)
        /\ ret = NoRet

FanoutFrame ==
    UNCHANGED <<movies, user_ratings, genres, directors, actors, rec_cache,
                memory_cache, now, last_put, wishlist, shutdown, disabled,
                trace>>

\* a worker of the pool takes the oldest submitted task (search.py 105-113,
\* 232-233) and the task sends its requests: a discover or a load sends
\* one, search_by_keyword submits its first round to its own pool, which
\* has a worker for each of them (tmdb.py 434-446)
WorkerTakes(i) ==
    /\ tasks[i].phase = "queued"
    /\ \A j \in 1..(i - 1) : tasks[j].phase # "queued"
    /\ Cardinality(Running({tasks[i].kind} \cup
                           (IF tasks[i].kind = "load" THEN {}
                            ELSE {"discover", "search"})))
           < (IF tasks[i].kind = "load" THEN LoadWorkers ELSE SearchWorkers)
    /\ tasks[i].requests <= KeywordWorkers
    /\ tasks' = [tasks EXCEPT ![i].phase = "first",
                              ![i].inflight = tasks[i].requests]
    /\ ret' = NoRet
    /\ FanoutFrame

\* a request of a task is answered, or fails, and is not the task's last
RequestReturns(i) ==
    /\ tasks[i].inflight > 1
    /\ tasks' = [tasks EXCEPT ![i].inflight = @ - 1]
    /\ ret' = NoRet
    /\ FanoutFrame

\* the last request of the first round of a keyword search is answered:
\* the filmographies of the persons found are submitted to the same pool,
\* two requests for each person (tmdb.py 448-473)
PersonsSubmitted(i, persons) ==
    /\ tasks[i].kind = "search"
    /\ tasks[i].phase = "first"
    /\ tasks[i].inflight = 1
    /\ persons > 0
    /\ 2 * persons <= KeywordWorkers
    /\ tasks' = [tasks EXCEPT ![i].phase = "person",
                              ![i].inflight = 2 * persons]
    /\ ret' = NoRet
    /\ FanoutFrame

\* the last request of a task is answered and the task returns
TaskReturns(i) ==
    /\ tasks[i].inflight = 1
    /\ tasks' = [tasks EXCEPT ![i].phase = "done", ![i].inflight = 0]
    /\ ret' = NoRet
    /\ FanoutFrame

\* the branches have all returned; the items to load are submitted
\* (search.py 231-233)
SubmitLoads(n) ==
    /\ Len(tasks) > 0
    /\ AllDone
    /\ tasks[1].kind # "load"
    /\ tasks' = [i \in 1..n |-> PoolTask("load", 1)]
    /\ ret' = NoRet
    /\ FanoutFrame

\* the items are loaded (search.py 235-244)
LoadsDone ==
    /\ Len(tasks) > 0
    /\ AllDone
    /\ tasks[1].kind = "load"
    /\ tasks' = <<>>
    /\ ret' = [op |-> "fanout", key |-> <<0, FALSE>>, value |-> Len(tasks)]
    /\ FanoutFrame

NextFanout ==
    \/ \E i \in 1..Len(tasks) : WorkerTakes(i)
    \/ \E i \in 1..Len(tasks) : RequestReturns(i)
    \/ \E i \in 1..Len(tasks), persons \in PersonsFound :
           PersonsSubmitted(i, persons)
    \/ \E i \in 1..Len(tasks) : TaskReturns(i)
    \/ \E n \in 1..MaxLoad : SubmitLoads(n)
    \/ LoadsDone

SpecFanout == InitFanout /\ [][NextFanout]_vars

-----------------------------------------------------------------------------
(* Lookups of recommendation lists whose provider request may fail         *)
(* (tmdb.py 66-81, 354-366; recommender.py 175-203).                       *)

\* what a request to the provider ends with: a JSON body with results, or
\* an error status, a transport error or a timeout
TMDBResponses ==
    {[ok |-> FALSE, results |-> <<>>]}
    \cup {[ok |-> TRUE, results |-> r] : r \in ProviderRecs}

\* TMDBAPI._get (tmdb.py 66-81): the body, or None after any exception
TMDBGet(response) == IF response.ok THEN Some(response.results) ELSE None

\* TMDBAPI.get_recommendations_movie / _tv (tmdb.py 354-366)
get_recommendations(response) ==
    LET data == TMDBGet(response)
    IN IF data = None THEN <<>> ELSE Take(Val(data), 10)

\* RecommenderService._get_cached_recommendations for a key, with the
\* response the provider gives if it is asked
LookupVia(k, response) ==
    LET got == _get_cached_recommendations(memory_cache, rec_cache, k, now,
                                           get_recommendations(response))
    IN
    /\ memory_cache' = got.mem
    /\ rec_cache' = got.cache
    /\ IF got.fetched THEN RecordPut(k, got.rec_ids) ELSE UNCHANGED last_put
    /\ ret' = [op |-> "lookup", key |-> k, value |-> Some(got.rec_ids),
               tier |-> got.tier, failed |-> got.fetched /\ ~response.ok]
    /\ UNCHANGED <<movies, user_ratings, genres, directors, actors, now, tasks,
                   wishlist, shutdown, disabled, trace>>

NextFetch ==
    \/ Tick
    \/ \E k \in CacheKeys, response \in TMDBResponses : LookupVia(k, response)

SpecFetch == InitCache /\ [][NextFetch]_vars

-----------------------------------------------------------------------------
(* RecommenderService._memory_cache at its capacity: LRUCache.get and      *)
(* LRUCache.set (recommender.py 13-38) on a cache that earlier lookups     *)
(* have filled to MAX_CACHE_SIZE or one entry less (recommender.py 52-58). *)

\* the entries that filled the cache have the keys (FillerBase + i, False),
\* set in the order of i
FillerBase == 10

\* gets and sets made in one run
MaxAccesses == 3

\* the keys that are read and written: the two oldest entries of the filled
\* cache and two keys that are not in it
LRUKeys == {<<FillerBase + 1, FALSE>>, <<FillerBase + 2, FALSE>>} \cup CacheKeys

Filled(n) == [i \in 1..n |-> [key |-> <<FillerBase + i, FALSE>>,
                              value |-> <<>>]]

LRUKeySet(c) == {c[i].key : i \in 1..Len(c)}

\* self._memory_cache.get(key)
CacheGet(k) ==
    /\ Len(trace) < MaxAccesses
    /\ memory_cache' = LRUGetCache(memory_cache, k)
    /\ trace' = Append(trace, [op |-> "get", key |-> k])
    /\ ret' = [op |-> "get", key |-> k, value |-> LRUGetValue(memory_cache, k)]
    /\ UNCHANGED <<movies, user_ratings, genres, directors, actors, rec_cache,
                   now, last_put, tasks, wishlist, shutdown, disabled>>

\* self._memory_cache.set(key, value)
CacheSet(k, ids) ==
    /\ Len(trace) < MaxAccesses
    /\ memory_cache' = LRUSet(memory_cache, k, ids)
    /\ trace' = Append(trace, [op |-> "set", key |-> k])
    /\ ret' = [op |-> "set", key |-> k, value |-> None]
    /\ UNCHANGED <<movies, user_ratings, genres, directors, actors, rec_cache,
                   now, last_put, tasks, wishlist, shutdown, disabled>>

\* the store holds a row for every key that is read or written
InitLRU ==
    \E n \in {MAX_CACHE_SIZE - 1, MAX_CACHE_SIZE} :
        /\ movies = {}
        /\ user_ratings = {}
        /\ genres = <<>>
        /\ directors = <<>>
        /\ actors = <<>>
        /\ rec_cache = UNION {save_cached_recommendations({}, k[1], k[2],
                                                          <<>>, 0) :
                              k \in LRUKeys}
        /\ memory_cache = Filled(n)
        /\ now = 0
        /\ last_put = [k \in CacheKeys |-> None]
        /\ wishlist = {}
        /\ shutdown = FALSE
        /\ disabled = [p \in Providers |-> FALSE]
        /\ trace = <<>>
        /\ tasks = <<>>
        /\ ret = NoRet

NextLRU ==
    \E k \in LRUKeys :
        \/ CacheGet(k)
        \/ \E ids \in RecLists : CacheSet(k, ids)

SpecLRU == InitLRU /\ [][NextLRU]_vars

-----------------------------------------------------------------------------
(* update_entity_ratings_for_movie (db.py 343-352, 408-471) on a store     *)
(* with several rated movies.  The ratings change without a recomputation  *)
(* (save_user_rating and delete_user_rating recompute nothing), so the     *)
(* stored affinities can be out of date when a recomputation runs.         *)

\* ratings the user has given before the run (0: not rated)
RecomputeRatings == {0, 4, 9}

\* save_user_rating for a movie that has a rating (db.py 317-320)
Rerate(m, rating) ==
    /\ get_user_rating(user_ratings, m.id) # None
    /\ user_ratings' = save_user_rating(user_ratings, m.id, rating, None)
    /\ ret' = [op |-> "save", key |-> <<m.kinopoisk_id, m.is_tv>>,
               value |-> Some(m.id)]
    /\ UNCHANGED <<movies, genres, directors, actors, rec_cache, memory_cache,
                   now, last_put, tasks, wishlist, shutdown, disabled, trace>>

\* delete_user_rating for a movie that has a rating (db.py 338-340)
Unrate(m) ==
    /\ get_user_rating(user_ratings, m.id) # None
    /\ user_ratings' = delete_user_rating(user_ratings, m.id)
    /\ ret' = [op |-> "delete", key |-> <<m.kinopoisk_id, m.is_tv>>,
               value |-> Some(m.id)]
    /\ UNCHANGED <<movies, genres, directors, actors, rec_cache, memory_cache,
                   now, last_put, tasks, wishlist, shutdown, disabled, trace>>

\* update_entity_ratings_for_movie(session, movie_id) (db.py 343-352)
Recompute(m) ==
    /\ genres' = UpdatedGenres(genres, movies, user_ratings, m)
    /\ directors' = UpdatedDirectors(directors, movies, user_ratings, m)
    /\ actors' = UpdatedActors(actors, movies, user_ratings, m)
    /\ ret' = [op |-> "recompute", key |-> <<m.kinopoisk_id, m.is_tv>>,
               value |-> Some(m.id)]
    /\ UNCHANGED <<movies, user_ratings, rec_cache, memory_cache, now,
                   last_put, tasks, wishlist, shutdown, disabled, trace>>

\* the hydrated catalogue with the ratings f and the affinities they give
InitRecompute ==
    \E f \in [{m.id : m \in HydratedDB.movies} -> RecomputeRatings] :
        /\ movies = HydratedDB.movies
        /\ user_ratings = RatingTable(f)
        /\ genres = AllGenresUpdated(SeededGenres, movies, user_ratings)
        /\ directors = AllDirectorsUpdated(HydratedDB.directors, movies,
                                           user_ratings)
        /\ actors = AllActorsUpdated(HydratedDB.actors, movies, user_ratings)
        /\ rec_cache = {}
        /\ memory_cache = <<>>
        /\ now = 0
        /\ last_put = [k \in CacheKeys |-> None]
        /\ wishlist = {}
        /\ shutdown = FALSE
        /\ disabled = [p \in Providers |-> FALSE]
        /\ trace = <<>>
        /\ tasks = <<>>
        /\ ret = NoRet

NextRecompute ==
    \E m \in movies :
        \/ \E rating \in RatingValues : Rerate(m, rating)
        \/ Unrate(m)
        \/ Recompute(m)

SpecRecompute == InitRecompute /\ [][NextRecompute]_vars

-----------------------------------------------------------------------------
(* The similarity part of the score over a long rating history             *)
(* (recommender.py 120-173): more liked and more disliked movies than half *)
(* of MAX_RATED_MOVIES_FOR_SIMILARITY, with neutral ratings among them,    *)
(* and both cache tiers empty, so that every list that is looked up is     *)
(* fetched and stored.                                                     *)

\* how many liked, disliked and neutral ratings a history has
HistoryLiked == {0, 1, 14, 15, 16, 17}
HistoryDisliked == {0, 1, 14, 15, 16, 17}
HistoryNeutral == {0, 2}

\* where the cycle of the rating values starts
HistoryShifts == {0, 1, 2}

\* the movie of the i-th rating of a history
HistoryMovie(i) ==
    NewMovie(HistoryBase + i,
             [kinopoisk_id |-> HistoryBase + i, is_tv |-> FALSE,
              title |-> <<"h">>, title_original |-> None, description |-> None,
              tmdb_rating |-> None])

\* the user_ratings table of a history: nl liked ratings (6 to 10), nd
\* disliked ones (1 to 4) and nn ratings of 5
History(nl, nd, nn, shift) ==
    {[id |-> i, movie_id |-> HistoryBase + i,
      rating |-> IF i <= nl THEN 6 + ((i + shift) % 5)
                 ELSE IF i <= nl + nd THEN 1 + ((i + shift) % 4)
                 ELSE 5,
      review |-> None] : i \in 1..(nl + nd + nn)}

InitSimilarity ==
    \E nl \in HistoryLiked, nd \in HistoryDisliked, nn \in HistoryNeutral,
       shift \in HistoryShifts :
        /\ movies = HydratedDB.movies
                        \cup {HistoryMovie(i) : i \in 1..(nl + nd + nn)}
        /\ user_ratings = History(nl, nd, nn, shift)
        /\ genres = SeededGenres
        /\ directors = HydratedDB.directors
        /\ actors = HydratedDB.actors
        /\ rec_cache = {}
        /\ memory_cache = <<>>
        /\ now = 0
        /\ last_put = [k \in CacheKeys |-> None]
        /\ wishlist = {}
        /\ shutdown = FALSE
        /\ disabled = [p \in Providers |-> FALSE]
        /\ trace = <<>>
        /\ tasks = <<>>
        /\ ret = NoRet

\* _tmdb_similarity_score(movie, session) up to its loop
\* (recommender.py 128-148): the ratings are read and selected
StartSimilarity(m) ==
    /\ ret = NoRet
    /\ tasks = <<>>
    /\ tasks' = <<[movie_id |-> m.id,
                   selected |-> SelectedRatings(
                                    get_all_user_ratings(user_ratings)),
                   total |-> RZero]>>
    /\ UNCHANGED <<movies, user_ratings, genres, directors, actors, rec_cache,
                   memory_cache, now, last_put, ret, wishlist, shutdown,
                   disabled, trace>>

\* one turn of the loop (recommender.py 150-171): the list of the next
\* selected rating is looked up and its contribution is added
SimilarityTurn ==
    /\ Len(tasks) = 1
    /\ Len(tasks[1].selected) > 0
    /\ \E sim \in {SimilarityLoop(<<tasks[1].selected[1]>>,
                                   MovieById(movies, tasks[1].movie_id),
                                   movies, memory_cache, rec_cache, now,
                                   tasks[1].total)} :
        /\ memory_cache' = sim.mem
        /\ rec_cache' = sim.cache
        /\ tasks' = <<[tasks[1] EXCEPT !.selected = Tail(@),
                                       !.total = sim.total]>>
    /\ UNCHANGED <<movies, user_ratings, genres, directors, actors, now,
                   last_put, ret, wishlist, shutdown, disabled, trace>>

\* recommender.py 173: return total_score
SimilarityReturn ==
    /\ Len(tasks) = 1
    /\ Len(tasks[1].selected) = 0
    /\ \E m \in {MovieById(movies, tasks[1].movie_id)} :
           ret' = [op |-> "similarity", key |-> <<m.kinopoisk_id, m.is_tv>>,
                   value |-> tasks[1].total]
    /\ tasks' = <<>>
    /\ UNCHANGED <<movies, user_ratings, genres, directors, actors, rec_cache,
                   memory_cache, now, last_put, wishlist, shutdown,
                   disabled, trace>>

NextSimilarity ==
    \/ \E m \in {c \in movies : c.id < HistoryBase /\ ~c.is_tv} :
           StartSimilarity(m)
    \/ SimilarityTurn
    \/ SimilarityReturn

SpecSimilarity == InitSimilarity /\ [][NextSimilarity]_vars

-----------------------------------------------------------------------------
(* The two tiers of the recommendation cache under their callers: the      *)
(* lookups of the scoring (recommender.py 175-203), which go through the   *)
(* LRU cache, and search_movies, find_magic_recommendation and             *)
(* find_similar_movies, which read and write the persistent tier directly  *)
(* (search.py 54-78, 647-671, 714-726).                                    *)

\* get_cached_recommendations, and for a key without a live row the
\* provider's list saved (search.py 54, 73-78; 647, 667-671; 714-726)
FetchUncached(k, recs) ==
    /\ \E cached_ids \in {get_cached_recommendations(rec_cache, k[1], k[2],
                                                      now)} :
          IF cached_ids # None
          THEN /\ ret' = [op |-> "cached", key |-> k, value |-> cached_ids]
               /\ UNCHANGED <<rec_cache, last_put>>
          ELSE /\ rec_cache' = save_cached_recommendations(
                                   rec_cache, k[1], k[2], RecIds(recs), now)
               /\ RecordPut(k, RecIds(recs))
               /\ ret' = [op |-> "fetched", key |-> k,
                          value |-> Some(RecIds(recs))]
    /\ UNCHANGED <<movies, user_ratings, genres, directors, actors,
                   memory_cache, now, tasks,
                   wishlist, shutdown, disabled, trace>>

NextTiers ==
    \/ Tick
    \/ \E k \in CacheKeys, recs \in ProviderRecs : FetchUncached(k, recs)
    \/ \E k \in CacheKeys, recs \in ProviderRecs : Lookup(k, recs)

SpecTiers == InitCache /\ [][NextTiers]_vars

-----------------------------------------------------------------------------
(* Rating saves and deletes step by step (db.py 299-340).  Each runs in a  *)
(* task of its own (app.py 400-450) with a session of its own, and the     *)
(* tasks interleave at every await: the SELECT of get_user_rating, the     *)
(* flush before the wishlist SELECT, the commit.  A session that has       *)
(* flushed a statement holds SQLite's write lock until it commits.         *)

\* the movie ids that are rated
UpsertMovies == {1, 2}

\* overtaken: another save or delete of the same movie has begun since
\* this one began
IdleSave == [pc |-> "idle", op |-> "save", movie_id |-> 0, rating |-> 0,
             found |-> None, unlist |-> FALSE, overtaken |-> FALSE]

\* the tasks when task t begins a save or a delete as the record begun
Begun(t, begun) ==
    [u \in DOMAIN tasks |->
        IF u = t THEN begun
        ELSE IF tasks[u].pc # "idle" /\ tasks[u].movie_id = begun.movie_id
        THEN [tasks[u] EXCEPT !.overtaken = TRUE]
        ELSE tasks[u]]

\* the record of a save or delete that has returned
Done(task) ==
    [op |-> task.op, movie_id |-> task.movie_id, rating |-> task.rating,
     latest |-> ~task.overtaken]

\* models.py 179: movie_id = Column(..., nullable=False, unique=True)
RatingUniqueViolation(urs, movie_id) == \E ur \in urs : ur.movie_id = movie_id

\* the statement the unit of work flushes for the UserRating of a save:
\* an INSERT for a new object, an UPDATE for a loaded object whose rating
\* differs from the loaded one, nothing for a loaded object set to the
\* value it was loaded with (db.py 313-320)
FlushedStatement(task) ==
    IF task.found = None THEN "insert"
    ELSE IF Val(task.found).rating # task.rating THEN "update"
    ELSE "none"

UpsertRet(task, outcome) ==
    [op |-> task.op, key |-> <<task.movie_id, FALSE>>, value |-> outcome]

\* db.py 311 / 334: user_rating = await get_user_rating(session, movie_id)
SaveRead(t, movie_id, rating) ==
    /\ tasks[t].pc = "idle"
    /\ Len(trace) < MaxTrace
    /\ tasks' = Begun(t, [IdleSave EXCEPT
                              !.pc = "read", !.movie_id = movie_id,
                              !.rating = rating,
                              !.found = get_user_rating(user_ratings,
                                                        movie_id)])
    /\ UNCHANGED <<movies, user_ratings, genres, directors, actors, rec_cache,
                   memory_cache, now, last_put, ret, wishlist, shutdown,
                   disabled, trace>>

\* db.py 313-323: the object is added or changed, and the SELECT on the
\* wishlist flushes it first; the INSERT fails on the unique constraint,
\* the UPDATE fails when its row is gone, and either exception leaves
\* save_user_rating
SaveFlush(t) ==
    /\ tasks[t].pc = "read"
    /\ tasks[t].op = "save"
    /\ \E statement \in {FlushedStatement(tasks[t])} :
        \/ /\ statement = "none"
           /\ tasks' = [tasks EXCEPT ![t] =
                           [@ EXCEPT !.pc = "clean",
                                     !.unlist = @ \/ (tasks[t].movie_id
                                                      \in wishlist)]]
           /\ ret' = ret
        \/ /\ statement # "none"
           /\ LockFree(t)
           /\ \E failed \in {IF statement = "insert"
                             THEN RatingUniqueViolation(user_ratings,
                                                        tasks[t].movie_id)
                             ELSE Val(tasks[t].found) \notin user_ratings} :
                /\ tasks' = [tasks EXCEPT ![t] =
                                IF failed THEN IdleSave
                                ELSE [@ EXCEPT !.pc = "flushed",
                                               !.unlist =
                                                   tasks[t].movie_id
                                                   \in wishlist]]
                /\ ret' = IF failed THEN UpsertRet(tasks[t], "raised")
                          ELSE ret
    /\ UNCHANGED <<movies, user_ratings, genres, directors, actors, rec_cache,
                   memory_cache, now, last_put, wishlist, shutdown,
                   disabled, trace>>

\* the user_ratings table after the flushed statement of a save
Written(urs, task) ==
    IF FlushedStatement(task) = "insert"
    THEN urs \cup {[id |-> NextId(urs), movie_id |-> task.movie_id,
                    rating |-> task.rating, review |-> None]}
    ELSE IF FlushedStatement(task) = "update"
    THEN {IF ur.id = Val(task.found).id
          THEN [ur EXCEPT !.rating = task.rating] ELSE ur : ur \in urs}
    ELSE urs

\* db.py 325-329: the wishlist row found is deleted, the session commits,
\* the object is refreshed from its row and save_user_rating returns;
\* refresh raises when the row is gone
SaveCommit(t) ==
    /\ tasks[t].op = "save"
    /\ \/ tasks[t].pc = "flushed"
       \/ tasks[t].pc = "clean" /\ (tasks[t].unlist => LockFree(t))
    /\ user_ratings' = Written(user_ratings, tasks[t])
    /\ wishlist' = IF tasks[t].unlist THEN wishlist \ {tasks[t].movie_id}
                   ELSE wishlist
    /\ \E refreshed \in {FlushedStatement(tasks[t]) = "insert"
                          \/ \E ur \in user_ratings' :
                                 ur.id = Val(tasks[t].found).id} :
        /\ trace' = IF refreshed
                    THEN Append(trace, Done(tasks[t]))
                    ELSE trace
        /\ ret' = UpsertRet(tasks[t], IF refreshed
                                      THEN FlushedStatement(tasks[t])
                                      ELSE "raised")
    /\ tasks' = [tasks EXCEPT ![t] = IdleSave]
    /\ UNCHANGED <<movies, genres, directors, actors, rec_cache,
                   memory_cache, now, last_put, shutdown, disabled>>

\* db.py 334-336: delete_user_rating returns False when there is no row
DeleteRead(t, movie_id) ==
    /\ tasks[t].pc = "idle"
    /\ Len(trace) < MaxTrace
    /\ \E found \in {get_user_rating(user_ratings, movie_id)} :
        /\ tasks' = IF found = None THEN tasks
                    ELSE Begun(t, [IdleSave EXCEPT
                                      !.pc = "read", !.op = "delete",
                                      !.movie_id = movie_id,
                                      !.found = found])
        /\ ret' = IF found = None
                  THEN [op |-> "delete", key |-> <<movie_id, FALSE>>,
                        value |-> "absent"]
                  ELSE ret
    /\ UNCHANGED <<movies, user_ratings, genres, directors, actors, rec_cache,
                   memory_cache, now, last_put, wishlist, shutdown,
                   disabled, trace>>

\* db.py 338-340: the row is deleted by its primary key at the commit
DeleteCommit(t) ==
    /\ tasks[t].pc = "read"
    /\ tasks[t].op = "delete"
    /\ LockFree(t)
    /\ user_ratings' = {ur \in user_ratings : ur.id # Val(tasks[t].found).id}
    /\ trace' = Append(trace, Done(tasks[t]))
    /\ ret' = UpsertRet(tasks[t], "deleted")
    /\ tasks' = [tasks EXCEPT ![t] = IdleSave]
    /\ UNCHANGED <<movies, genres, directors, actors, rec_cache,
                   memory_cache, now, last_put, wishlist, shutdown, disabled>>

InitUpsert ==
    /\ movies = HydratedDB.movies
    /\ user_ratings = {}
    /\ genres = SeededGenres
    /\ directors = HydratedDB.directors
    /\ actors = HydratedDB.actors
    /\ rec_cache = {}
    /\ memory_cache = <<>>
    /\ now = 0
    /\ last_put = [k \in CacheKeys |-> None]
    /\ wishlist = {1}
    /\ shutdown = FALSE
    /\ disabled = [p \in Providers |-> FALSE]
    /\ trace = <<>>
    /\ tasks = [t \in 1..MaxTasks |-> IdleSave]
    /\ ret = NoRet

NextUpsert ==
    \E t \in 1..MaxTasks :
        \/ \E movie_id \in UpsertMovies, rating \in RatingValues :
               SaveRead(t, movie_id, rating)
        \/ SaveFlush(t)
        \/ SaveCommit(t)
        \/ \E movie_id \in UpsertMovies : DeleteRead(t, movie_id)
        \/ DeleteCommit(t)

SpecUpsert == InitUpsert /\ [][NextUpsert]_vars

-----------------------------------------------------------------------------
(* The external ratings of the rows that lack an IMDb rating, fetched on   *)
(* the workers of a pool and put on the rows as the calls complete         *)
(* (search.py 266-312 and 335-379), for every response the providers can   *)
(* give.                                                                   *)

\* what MDBListAPI.get_ratings_by_tmdb_id returns: {} for an empty, failed
\* or refused response and for a disabled instance (mdblist.py 20-50),
\* otherwise the ratings parsed, which may lack any of the three fields
NoRatings == [imdb |-> None, rotten_tomatoes |-> None, metacritic |-> None]

MDBListResults ==
    {[kind |-> "empty", ratings |-> NoRatings]}
    \cup {[kind |-> "ratings", ratings |-> b] :
              b \in [imdb : {None, Some(RInt(8))},
                     rotten_tomatoes : {None, Some(85)},
                     metacritic : {None, Some(0), Some(60)}]}

\* ratings a row may hold before the enrichment
StoredRatings ==
    {NoRatings,
     [imdb |-> None, rotten_tomatoes |-> Some(70), metacritic |-> Some(50)],
     [imdb |-> Some(RInt(7)), rotten_tomatoes |-> None, metacritic |-> None]}

\* _fetch_external_ratings_for_movie (search.py 362-379): the MDBList
\* result when it is not empty; otherwise, with an OMDb instance and an
\* imdb_id, the call of the coroutine function get_ratings_by_imdb_id
\* (omdb.py 27), whose result has no get and makes the worker raise
_fetch_external_ratings_for_movie(mdblist, omdb_fallback) ==
    IF mdblist.kind # "empty" THEN mdblist
    ELSE IF omdb_fallback THEN [kind |-> "raised", ratings |-> NoRatings]
    ELSE mdblist

IdleBundles == [pc |-> "idle", calls |-> {}, results |-> {}, handled |-> {}]

InitBundles ==
    \E stored \in [{m.id : m \in HydratedDB.movies} -> StoredRatings] :
        /\ movies = {WithRatingsOverwritten(m, stored[m.id]) :
                         m \in HydratedDB.movies}
        /\ user_ratings = {}
        /\ genres = SeededGenres
        /\ directors = HydratedDB.directors
        /\ actors = HydratedDB.actors
        /\ rec_cache = {}
        /\ memory_cache = <<>>
        /\ now = 0
        /\ last_put = [k \in CacheKeys |-> None]
        /\ wishlist = {}
        /\ shutdown = FALSE
        /\ disabled = [p \in Providers |-> FALSE]
        /\ trace = <<>>
        /\ tasks = <<IdleBundles>>
        /\ ret = NoRet

BundlesFrame ==
    UNCHANGED <<user_ratings, genres, directors, actors, rec_cache,
                memory_cache, now, last_put, wishlist, shutdown, disabled,
                trace>>

\* search.py 276-291, 339-344: a call is submitted for every row without
\* an IMDb rating
SubmitCalls ==
    /\ tasks[1].pc = "idle"
    /\ \E needing \in {{m.id : m \in {r \in movies : r.imdb_rating = None}}} :
          /\ tasks' = [tasks EXCEPT ![1].calls = needing,
                          ![1].pc = IF needing = {} THEN "returned"
                                    ELSE "waiting"]
          /\ ret' = IF needing = {}
                    THEN [op |-> "enriched", key |-> <<0, FALSE>>,
                          value |-> {}]
                    ELSE ret
    /\ UNCHANGED movies
    /\ BundlesFrame

\* the call for a row returns or raises
CallCompletes(id, mdblist, omdb_fallback) ==
    /\ id \in tasks[1].calls
    /\ tasks' = [tasks EXCEPT
          ![1].calls = @ \ {id},
          ![1].results = @ \cup
              {[id |-> id,
                outcome |-> _fetch_external_ratings_for_movie(
                                mdblist, omdb_fallback)]}]
    /\ UNCHANGED <<movies, ret>>
    /\ BundlesFrame

\* one turn of the loop over the completed calls (search.py 293-312,
\* 346-357): the fields the result holds are put on the row; an empty
\* result is skipped and an exception of the call is dropped
HandleResult(r) ==
    /\ tasks[1].pc = "waiting"
    /\ r \in tasks[1].results
    /\ r.id \notin tasks[1].handled
    /\ \E m \in {MovieById(movies, r.id)} :
          movies' = IF r.outcome.kind # "ratings" THEN movies
                    ELSE (movies \ {m})
                             \cup {WithRatings(m, r.outcome.ratings)}
    /\ \E last \in {tasks[1].calls = {} /\
                    {x.id : x \in tasks[1].results} \ tasks[1].handled
                        = {r.id}} :
          /\ tasks' = [tasks EXCEPT ![1].handled = @ \cup {r.id},
                          ![1].pc = IF last THEN "returned" ELSE "waiting"]
          /\ ret' = IF last
                    THEN [op |-> "enriched", key |-> <<0, FALSE>>,
                          value |-> tasks[1].handled \cup {r.id}]
                    ELSE ret
    /\ BundlesFrame

NextBundles ==
    \/ SubmitCalls
    \/ \E m \in movies, mdblist \in MDBListResults, omdb_fallback \in BOOLEAN :
           CallCompletes(m.id, mdblist, omdb_fallback)
    \/ \E r \in tasks[1].results : HandleResult(r)

SpecBundles == InitBundles /\ [][NextBundles]_vars

-----------------------------------------------------------------------------
(* Rating changes of one listed movie (app.py 400-427): the list shows the *)
(* selected rating at once (movie_list.py 285-288) and a task saves it and *)
(* then recomputes the affinities; the tasks of successive changes         *)
(* interleave at every await, and the handler of a failed task puts None   *)
(* in the place of the shown rating.                                       *)

\* the movie whose rating is changed: the stored film of identity 1
ReconcileMovie == Val(get_movie_by_kp_id(HydratedDB.movies, 1, FALSE)).id

\* the ratings the user selects
ReconcileRatings == {4, 9}

\* the most rating changes of a run
MaxChanges == 2

\* MovieList.ratings[movie.id] and the rating selected last
Shown(shown, selected) ==
    [op |-> "shown", key |-> <<ReconcileMovie, FALSE>>,
     value |-> [shown |-> shown, selected |-> selected]]

\* the rating of the stored UserRating of the movie, None without a row
StoredRating ==
    LET row == get_user_rating(user_ratings, ReconcileMovie)
    IN IF row = None THEN None ELSE Some(Val(row).rating)

InitReconcile ==
    \E f \in [{m.id : m \in HydratedDB.movies} -> {0, 4}] :
        /\ movies = HydratedDB.movies
        /\ user_ratings = RatingTable(f)
        /\ genres = AllGenresUpdated(SeededGenres, movies, user_ratings)
        /\ directors = AllDirectorsUpdated(HydratedDB.directors, movies,
                                           user_ratings)
        /\ actors = AllActorsUpdated(HydratedDB.actors, movies, user_ratings)
        /\ rec_cache = {}
        /\ memory_cache = <<>>
        /\ now = 0
        /\ last_put = [k \in CacheKeys |-> None]
        /\ wishlist = {}
        /\ shutdown = FALSE
        /\ disabled = [p \in Providers |-> FALSE]
        /\ trace = <<>>
        /\ tasks = <<>>
        /\ ret = Shown(StoredRating, f[ReconcileMovie])

\* _handle_rating_change up to run_task (app.py 400-427): the list shows
\* the rating and do_save is scheduled
SelectRating(rating) ==
    /\ Len(tasks) < MaxChanges
    /\ ret' = Shown(Some(rating), rating)
    /\ tasks' = Append([u \in DOMAIN tasks |->
                           IF tasks[u].pc # "done"
                           THEN [tasks[u] EXCEPT !.overlapped = TRUE]
                           ELSE tasks[u]],
                       [pc |-> "start", movie_id |-> ReconcileMovie,
                        rating |-> rating, found |-> None,
                        failed |-> FALSE,
                        overlapped |-> \E u \in DOMAIN tasks :
                                          tasks[u].pc # "done"])
    /\ UNCHANGED <<movies, user_ratings, genres, directors, actors, rec_cache,
                   memory_cache, now, last_put, wishlist, shutdown, disabled,
                   trace>>

\* the except branch of do_save (app.py 417-425) while the application is
\* not shutting down
Reverted == Shown(None, ret.value.selected)

\* db.py 311: user_rating = await get_user_rating(session, movie_id)
ReadRating(t) ==
    /\ tasks[t].pc = "start"
    /\ tasks' = [tasks EXCEPT ![t].pc = "read",
                              ![t].found = get_user_rating(user_ratings,
                                                           ReconcileMovie)]
    /\ UNCHANGED <<movies, user_ratings, genres, directors, actors, rec_cache,
                   memory_cache, now, last_put, ret, wishlist, shutdown,
                   disabled, trace>>

\* db.py 313-329: the statement is flushed and committed; an INSERT for a
\* movie that has a row by now fails on the unique constraint
WriteRating(t) ==
    /\ tasks[t].pc = "read"
    /\ \E raised \in {/\ FlushedStatement(tasks[t]) = "insert"
                      /\ RatingUniqueViolation(user_ratings,
                                               ReconcileMovie)} :
          /\ user_ratings' = IF raised THEN user_ratings
                             ELSE Written(user_ratings, tasks[t])
          /\ tasks' = [tasks EXCEPT ![t].pc = IF raised THEN "done"
                                              ELSE "saved",
                                    ![t].failed = raised]
          /\ ret' = IF raised THEN Reverted ELSE ret
    /\ UNCHANGED <<movies, genres, directors, actors, rec_cache,
                   memory_cache, now, last_put, wishlist, shutdown,
                   disabled, trace>>

\* app.py 414-415: update_entity_ratings_for_movie in a session of its
\* own, which recomputes the affinities or raises
AffinityFollowUp(t, raised) ==
    /\ tasks[t].pc = "saved"
    /\ tasks' = [tasks EXCEPT ![t].pc = "done", ![t].failed = raised]
    /\ \E m \in {MovieById(movies, ReconcileMovie)} :
          IF raised
          THEN /\ ret' = Reverted
               /\ UNCHANGED <<genres, directors, actors>>
          ELSE /\ ret' = ret
               /\ genres' = UpdatedGenres(genres, movies, user_ratings, m)
               /\ directors' = UpdatedDirectors(directors, movies,
                                                user_ratings, m)
               /\ actors' = UpdatedActors(actors, movies, user_ratings, m)
    /\ UNCHANGED <<movies, user_ratings, rec_cache, memory_cache, now,
                   last_put, wishlist, shutdown, disabled, trace>>

NextReconcile ==
    \/ \E rating \in ReconcileRatings : SelectRating(rating)
    \/ \E t \in DOMAIN tasks : ReadRating(t)
    \/ \E t \in DOMAIN tasks : WriteRating(t)
    \/ \E t \in DOMAIN tasks, raised \in BOOLEAN : AffinityFollowUp(t, raised)

SpecReconcile == InitReconcile /\ [][NextReconcile]_vars

-----------------------------------------------------------------------------
(* Searches and fetches of further pages issued from the window           *)
(* (app.py 148-227) and the list they fill (movie_list.py 138-157,         *)
(* 175-196, 249-274).  Every request runs in a task of its own, and the    *)
(* tasks finish in any order.  An item of a result is known by the query   *)
(* and the first page of the request that found it.                        *)

\* the queries the user searches for
SearchedQueries == {1, 2}

\* the most requests of a run
MaxRequests == 3

\* pages 1-3 are loaded by a search, and three more by every fetch
\* (app.py 157, 205, 207)
FirstNextPage == 4
PagesPerFetch == 3

Item(query, page) == [query |-> query, page |-> page]

\* _search_query, _search_next_page and the fields of the MovieList:
\* is_loading, movies, _fetching_more, and whether on_fetch_more is set
Window(w) == [op |-> "window", key |-> <<0, FALSE>>, value |-> w]

InitRequests ==
    /\ movies = HydratedDB.movies
    /\ user_ratings = {}
    /\ genres = SeededGenres
    /\ directors = HydratedDB.directors
    /\ actors = HydratedDB.actors
    /\ rec_cache = {}
    /\ memory_cache = <<>>
    /\ now = 0
    /\ last_put = [k \in CacheKeys |-> None]
    /\ wishlist = {}
    /\ shutdown = FALSE
    /\ disabled = [p \in Providers |-> FALSE]
    /\ trace = <<>>
    /\ tasks = <<>>
    /\ ret = Window([query |-> 0, next_page |-> FirstNextPage,
                     loading |-> FALSE, movies |-> <<>>,
                     fetching |-> FALSE, more |-> TRUE])

RequestsFrame ==
    UNCHANGED <<movies, user_ratings, genres, directors, actors, rec_cache,
                memory_cache, now, last_put, wishlist, shutdown, disabled,
                trace>>

\* the tasks with those that have not finished marked as overlapped by a
\* later request
Overlapped(ts) ==
    [u \in DOMAIN ts |->
        IF ts[u].pc # "done" THEN [ts[u] EXCEPT !.overlapped = TRUE]
        ELSE ts[u]]

\* _handle_search (app.py 148-189) up to run_task
HandleSearch(query) ==
    /\ Len(tasks) < MaxRequests
    /\ ret' = Window([ret.value EXCEPT !.query = query,
                                       !.next_page = FirstNextPage,
                                       !.loading = TRUE, !.more = TRUE])
    /\ tasks' = Append(Overlapped(tasks),
                       [kind |-> "search", pc |-> "running",
                        query |-> query, page |-> 1,
                        overlapped |-> \E u \in DOMAIN tasks :
                                          tasks[u].pc # "done"])
    /\ RequestsFrame

\* do_search after search_movies has returned (app.py 166-187): set_movies
\* with the result, or set_message when nothing was found
SearchReturns(t, found) ==
    /\ tasks[t].kind = "search"
    /\ tasks[t].pc = "running"
    /\ tasks' = [tasks EXCEPT ![t].pc = "done"]
    /\ ret' = Window([ret.value EXCEPT
                         !.loading = FALSE,
                         !.movies = IF found
                                    THEN <<Item(tasks[t].query, 1)>>
                                    ELSE <<>>])
    /\ RequestsFrame

\* _load_more_click (movie_list.py 138-157) with every loaded item shown:
\* _handle_fetch_more schedules do_fetch
LoadMoreClick ==
    /\ Len(tasks) < MaxRequests
    /\ ~ret.value.loading
    /\ Len(ret.value.movies) > 0
    /\ ~ret.value.fetching
    /\ ret.value.more
    /\ ret' = Window([ret.value EXCEPT !.fetching = TRUE])
    /\ tasks' = Append(tasks, [kind |-> "fetch", pc |-> "scheduled",
                               query |-> 0, page |-> 0,
                               overlapped |-> FALSE])
    /\ RequestsFrame

\* do_fetch calls search_movies with the query and the page it reads from
\* the window at that moment (app.py 198-206)
FetchCalls(t) ==
    /\ tasks[t].kind = "fetch"
    /\ tasks[t].pc = "scheduled"
    /\ tasks' = [tasks EXCEPT ![t].pc = "running",
                              ![t].query = ret.value.query,
                              ![t].page = ret.value.next_page]
    /\ UNCHANGED ret
    /\ RequestsFrame

\* the items of a result that the list does not hold yet
\* (movie_list.py 184-186)
Added(shown, new_movies) ==
    SelectSeq(new_movies, LAMBDA m : \A i \in 1..Len(shown) : shown[i] # m)

\* do_fetch after search_movies has returned (app.py 207-220): the page
\* counter is advanced, and the result is appended or further fetching is
\* switched off
FetchReturns(t, found) ==
    /\ tasks[t].kind = "fetch"
    /\ tasks[t].pc = "running"
    /\ tasks' = [tasks EXCEPT ![t].pc = "done"]
    /\ ret' = Window([ret.value EXCEPT
                         !.next_page = @ + PagesPerFetch,
                         !.fetching = FALSE,
                         !.more = IF found THEN @ ELSE FALSE,
                         !.movies =
                             IF found
                             THEN @ \o Added(@, <<Item(tasks[t].query,
                                                       tasks[t].page)>>)
                             ELSE @])
    /\ RequestsFrame

NextRequests ==
    \/ \E query \in SearchedQueries : HandleSearch(query)
    \/ \E t \in DOMAIN tasks, found \in BOOLEAN : SearchReturns(t, found)
    \/ LoadMoreClick
    \/ \E t \in DOMAIN tasks : FetchCalls(t)
    \/ \E t \in DOMAIN tasks, found \in BOOLEAN : FetchReturns(t, found)

SpecRequests == InitRequests /\ [][NextRequests]_vars

-----------------------------------------------------------------------------
(* save_movie step by step on one session (db.py 135-179).  The session    *)
(* sees its own pending changes: `work` is the tables as the session sees  *)
(* them, and movies, directors and actors are the tables as committed.     *)
(* The caller commits the session once more after its saves                *)
(* (search.py 244).                                                        *)

\* the items saved
SavedKeys == {<<1, FALSE>>, <<1, TRUE>>, <<2, FALSE>>, <<2, TRUE>>}

Committed == [movies |-> movies, directors |-> directors, actors |-> actors]

\* a variant of Rollback that keeps the pending changes in the session
RollbackKeepsPending(work, committed) == work

\* session.rollback() (db.py 174): the pending changes are discarded
Rollback(work, committed) == committed

\* the movies of the session with the row put in the place of its id
WithRow(work, row) ==
    [work EXCEPT !.movies = {m \in @ : m.id # row.id} \cup {row}]

IdleSession == [pc |-> "idle", data |-> None, row |-> None, work |-> EmptyDB,
             before |-> EmptyDB]

InitSave ==
    /\ movies = {}
    /\ user_ratings = {}
    /\ genres = SeededGenres
    /\ directors = <<>>
    /\ actors = <<>>
    /\ rec_cache = {}
    /\ memory_cache = <<>>
    /\ now = 0
    /\ last_put = [k \in CacheKeys |-> None]
    /\ wishlist = {}
    /\ shutdown = FALSE
    /\ disabled = [p \in Providers |-> FALSE]
    /\ trace = <<>>
    /\ tasks = IdleSession
    /\ ret = NoRet

\* what a step of the try block leaves alone
SaveFrame ==
    UNCHANGED <<user_ratings, genres, rec_cache, memory_cache, now, last_put,
                wishlist, shutdown, disabled, trace>>

\* save_movie up to the try block (db.py 144-151): the lookup of the
\* identity and the pop of the link data
BeginSave(k) ==
    /\ tasks.pc = "idle"
    /\ TMDBDetails(k) # None
    /\ tasks' = [tasks EXCEPT
                    !.pc = "try", !.data = TMDBDetails(k),
                    !.row = get_movie_by_kp_id(tasks.work.movies, k[1], k[2]),
                    !.before = Committed]
    /\ ret' = NoRet
    /\ UNCHANGED <<movies, directors, actors>>
    /\ SaveFrame

\* the insert with its flush, or the setattr loop (db.py 152-159)
PutRow(failed) ==
    /\ tasks.pc = "try"
    /\ failed => tasks.row = None
    /\ \E row \in {IF tasks.row = None
                   THEN NewMovie(NextId(tasks.work.movies), Val(tasks.data))
                   ELSE UpdatedMovie(Val(tasks.row), Val(tasks.data))} :
          tasks' = IF failed
                   THEN [tasks EXCEPT !.pc = "except"]
                   ELSE [tasks EXCEPT !.pc = "row", !.row = Some(row),
                                      !.work = WithRow(@, row)]
    /\ UNCHANGED <<movies, directors, actors, ret>>
    /\ SaveFrame

\* set_movie_genres (db.py 186-199): the links are deleted, then added
LinkGenres(failed) ==
    /\ tasks.pc = "row"
    /\ \E row \in {[Val(tasks.row) EXCEPT
                       !.genre_list =
                           IF failed THEN <<>>
                           ELSE GenreList(normalize_genres(
                                              Val(tasks.data).genres))]} :
          tasks' = [tasks EXCEPT
                       !.pc = IF failed THEN "except" ELSE "genres",
                       !.row = Some(row), !.work = WithRow(@, row)]
    /\ UNCHANGED <<movies, directors, actors, ret>>
    /\ SaveFrame

\* set_movie_directors (db.py 202-220): every director up to the one whose
\* name raises is created and flushed
LinkDirectors ==
    /\ tasks.pc = "genres"
    /\ \E ds \in {SetPersons(tasks.work.directors,
                             Val(tasks.data).directors, <<>>)} :
       \E row \in {[Val(tasks.row) EXCEPT !.director_list = ds.links]} :
          tasks' = [tasks EXCEPT
                       !.pc = IF ds.raised THEN "except" ELSE "directors",
                       !.row = Some(row),
                       !.work = [WithRow(@, row) EXCEPT
                                    !.directors = ds.tab]]
    /\ UNCHANGED <<movies, directors, actors, ret>>
    /\ SaveFrame

\* set_movie_actors (db.py 223-244)
LinkActors ==
    /\ tasks.pc = "directors"
    /\ \E acs \in {SetPersons(tasks.work.actors,
                              Take(Val(tasks.data).actors, 10), <<>>)} :
       \E row \in {[Val(tasks.row) EXCEPT !.actor_list = acs.links]} :
          tasks' = [tasks EXCEPT
                       !.pc = IF acs.raised THEN "except" ELSE "actors",
                       !.row = Some(row),
                       !.work = [WithRow(@, row) EXCEPT !.actors = acs.tab]]
    /\ UNCHANGED <<movies, directors, actors, ret>>
    /\ SaveFrame

\* session.commit() and the return of the row (db.py 171-172, 179)
CommitSave(failed) ==
    /\ tasks.pc = "actors"
    /\ IF failed
       THEN /\ tasks' = [tasks EXCEPT !.pc = "except"]
            /\ UNCHANGED <<movies, directors, actors, ret>>
       ELSE /\ movies' = tasks.work.movies
            /\ directors' = tasks.work.directors
            /\ actors' = tasks.work.actors
            /\ tasks' = [tasks EXCEPT !.pc = "idle"]
            /\ ret' = [op |-> "save",
                       key |-> <<Val(tasks.data).kinopoisk_id,
                                 Val(tasks.data).is_tv>>,
                       value |-> [failed |-> FALSE, movie |-> tasks.row,
                                  raised |-> FALSE, pending |-> FALSE,
                                  committed |-> FALSE,
                                  before |-> tasks.before]]
    /\ SaveFrame

\* the except block (db.py 173-177): rollback, the lookup of the identity,
\* and the raise when nothing is stored for it
ExceptSave ==
    /\ tasks.pc = "except"
    /\ \E work \in {Rollback(tasks.work, Committed)} :
       \E movie \in {get_movie_by_kp_id(work.movies,
                                        Val(tasks.data).kinopoisk_id,
                                        Val(tasks.data).is_tv)} :
          /\ tasks' = [tasks EXCEPT !.pc = "idle", !.work = work]
          /\ ret' = [op |-> "save",
                     key |-> <<Val(tasks.data).kinopoisk_id,
                               Val(tasks.data).is_tv>>,
                     value |-> [failed |-> TRUE, movie |-> movie,
                                raised |-> movie = None,
                                pending |-> tasks.work # Committed,
                                committed |-> FALSE,
                                before |-> tasks.before]]
    /\ UNCHANGED <<movies, directors, actors>>
    /\ SaveFrame

\* the commit of the caller after its saves (search.py 244)
CallerCommits ==
    /\ tasks.pc = "idle"
    /\ ret.op = "save"
    /\ movies' = tasks.work.movies
    /\ directors' = tasks.work.directors
    /\ actors' = tasks.work.actors
    /\ ret' = [ret EXCEPT !.value.committed = TRUE]
    /\ UNCHANGED tasks
    /\ SaveFrame

NextSave ==
    \/ \E k \in SavedKeys : BeginSave(k)
    \/ \E failed \in BOOLEAN : PutRow(failed)
    \/ \E failed \in BOOLEAN : LinkGenres(failed)
    \/ LinkDirectors
    \/ LinkActors
    \/ \E failed \in BOOLEAN : CommitSave(failed)
    \/ ExceptSave
    \/ CallerCommits

SpecSave == InitSave /\ [][NextSave]_vars
-----------------------------------------------------------------------------
(* The result of a search, read in the state the search returns in.        *)

\* the rows of the returned list, in its order
ResultRows ==
    [i \in 1..Len(ret.value.movies) |-> MovieById(movies, ret.value.movies[i])]

\* a branch that did not fail answered with the row's identity
Contributed(m) ==
    \E b \in Range(ApiTasks(ret.value.query_words, ret.value.genres))
                 \ ret.value.failed :
        \E i \in 1..Len(TaskResult(b)) :
            /\ TaskResult(b)[i].kinopoisk_id = m.kinopoisk_id
            /\ TaskResult(b)[i].is_tv = m.is_tv

\* the local store finds the row for one of the query words
LocalHit(m) ==
    \E i \in 1..Len(ret.value.query_words) :
        Contains(search_local_movies(movies, directors, actors,
                                     ret.value.query_words[i]), m)

\* the row passes the two filters of the search
PassesFilters(m) ==
    /\ Len(ret.value.query_words) > 0 =>
           _matches_all_words(m, directors, actors, ret.value.query_words)
    /\ Len(ret.value.genres) > 0 => _matches_genres(m, ret.value.genres)

-----------------------------------------------------------------------------
(* C1: deduplication.  The list a search returns never holds two items     *)
(* with the same (external id, content type), whatever the overlap of the  *)
(* seeds, the provider branches and the local store; and identity is per   *)
(* content type: when a returned item shares its external id with a stored *)
(* item of the other content type that a branch contributed and that       *)
(* passes the filters, that other item is returned as well.                *)

SearchResultsDistinct ==
    ret.op = "search" =>
        /\ \A i, j \in 1..Len(ResultRows) :
               i < j =>
                   <<ResultRows[i].kinopoisk_id, ResultRows[i].is_tv>>
                       # <<ResultRows[j].kinopoisk_id, ResultRows[j].is_tv>>
        /\ \A a \in Range(ResultRows), b \in movies :
               (/\ b.kinopoisk_id = a.kinopoisk_id
                /\ b.is_tv # a.is_tv
                /\ Contributed(b)
                /\ PassesFilters(b)) => Contains(ret.value.movies, b.id)

\* a movie and a series with one external id are both returned, from
\* branches whose answers overlap
SearchResultsDistinctWitness ==
    /\ ret.op = "search"
    /\ \E i, j \in 1..Len(ResultRows) :
           /\ ResultRows[i].kinopoisk_id = ResultRows[j].kinopoisk_id
           /\ ResultRows[i].is_tv # ResultRows[j].is_tv
    /\ \E b, c \in Range(ApiTasks(ret.value.query_words, ret.value.genres)) :
           b # c /\ Range(TaskResult(b)) \cap Range(TaskResult(c)) # {}

-----------------------------------------------------------------------------
(* C2: a failed branch is passed over.  When branches of the provider      *)
(* fan-out fail, the search still returns, and its list holds every stored *)
(* item that passes the filters and that a branch which did not fail       *)
(* contributed or the local store found.                                   *)

FailedBranchIsolated ==
    ret.op = "search" =>
        \A m \in movies :
            ((Contributed(m) \/ LocalHit(m)) /\ PassesFilters(m))
                => Contains(ret.value.movies, m.id)

\* a branch failed and an item another branch contributed is returned
FailedBranchIsolatedWitness ==
    /\ ret.op = "search"
    /\ ret.value.failed # {}
    /\ \E m \in Range(ResultRows) :
           /\ Contributed(m)
           /\ \E b \in ret.value.failed :
                  \E i \in 1..Len(TaskResult(b)) :
                      TaskResult(b)[i].kinopoisk_id = m.kinopoisk_id

-----------------------------------------------------------------------------
(* C3: cache round trip.  After put(k, v), get(k) returns v while the      *)
(* entry is at most MaxAgeDays old; once it is older, get(k) returns None  *)
(* while the row written by the put is still stored (until the next put).  *)

PutRowStored(k, p) ==
    \E r \in CacheRows(rec_cache, k[1], k[2]) :
        /\ json_loads(r.recommended_ids) = p.ids
        /\ r.updated_at = p.at

CacheRoundTrip ==
    \A k \in CacheKeys :
        last_put[k] # None =>
            LET p == Val(last_put[k])
                got == get_cached_recommendations(rec_cache, k[1], k[2], now)
            IN /\ (now - p.at <= MaxAgeDays) => got = Some(p.ids)
               /\ (now - p.at > MaxAgeDays) => (got = None /\ PutRowStored(k, p))

\* a get of a put entry that has expired returned None, the row still stored
CacheRoundTripWitness ==
    /\ ret.op = "get"
    /\ ret.value = None
    /\ last_put[ret.key] # None
    /\ now - Val(last_put[ret.key]).at > MaxAgeDays
    /\ Val(last_put[ret.key]).ids # <<>>
    /\ PutRowStored(ret.key, Val(last_put[ret.key]))

-----------------------------------------------------------------------------
(* C4: concurrent hydrations of one identity.  Under every interleaving of *)
(* hydrations, the store never holds two rows with the same (external id,  *)
(* content type); a hydration whose insert failed on the unique constraint *)
(* looks the row up again and returns the row the store holds for the      *)
(* identity; and a hydration that raises to its caller is never one whose  *)
(* insert failed on the unique constraint.                                 *)

HydrationKeepsIdentityUnique ==
    /\ \A a, b \in movies :
           (a.kinopoisk_id = b.kinopoisk_id /\ a.is_tv = b.is_tv) => a = b
    /\ \A t \in DOMAIN tasks :
           /\ tasks[t].pc = "raised" => ~tasks[t].conflict
           /\ (tasks[t].pc = "returned" /\ tasks[t].conflict) =>
                  \E m \in movies :
                      /\ m.kinopoisk_id = tasks[t].key[1]
                      /\ m.is_tv = tasks[t].key[2]
                      /\ tasks[t].movie # None
                      /\ Val(tasks[t].movie).id = m.id

\* a hydration has lost the race for the insert and has returned
HydrationKeepsIdentityUniqueWitness ==
    \E t \in DOMAIN tasks : tasks[t].pc = "returned" /\ tasks[t].conflict

-----------------------------------------------------------------------------
(* C5: with a rating history, a search returns its items in non-increasing *)
(* order of score: of two adjacent items the first has a score not below   *)
(* the second's, the score being what calculate_score gives for the item   *)
(* with the store and the ratings of that search.                          *)

ScoreOf(m) ==
    calculate_score(m, movies, user_ratings, genres, directors, actors,
                    memory_cache, rec_cache, now).score

SearchOrderedByScore ==
    (ret.op = "search" /\ user_ratings # {}) =>
        \A i \in 1..(Len(ResultRows) - 1) :
            RLe(ScoreOf(ResultRows[i + 1]), ScoreOf(ResultRows[i]))

\* a result with a history in which an item has a strictly greater score
\* than the next
SearchOrderedByScoreWitness ==
    /\ ret.op = "search"
    /\ user_ratings # {}
    /\ \E i \in 1..(Len(ResultRows) - 1) :
           RLt(ScoreOf(ResultRows[i + 1]), ScoreOf(ResultRows[i]))

-----------------------------------------------------------------------------
(* C6: without ratings, the order of a search result is the order by       *)
(* descending aggregator consensus: of two adjacent items the first has a  *)
(* consensus not below the second's, the consensus of an item being the    *)
(* mean of its available external ratings, and 0 when it has none.         *)

\* the mean of the external ratings the row has, on the scale of 10
Consensus(m) ==
    LET Of(scores) == IF Len(scores) > 0 THEN RMean(scores) ELSE RZero
    IN Of(   (IF m.tmdb_rating # None THEN <<Val(m.tmdb_rating)>> ELSE <<>>)
          \o (IF m.imdb_rating # None THEN <<Val(m.imdb_rating)>> ELSE <<>>)
          \o (IF m.rotten_tomatoes # None
              THEN <<Rat(Val(m.rotten_tomatoes), 10)>> ELSE <<>>)
          \o (IF m.metacritic # None
              THEN <<Rat(Val(m.metacritic), 10)>> ELSE <<>>))

NoHistoryOrderIsConsensus ==
    (ret.op = "search" /\ user_ratings = {}) =>
        \A i \in 1..(Len(ResultRows) - 1) :
            RLe(Consensus(ResultRows[i + 1]), Consensus(ResultRows[i]))

-----------------------------------------------------------------------------
(* C7: every item a search returns for the query tokens T and the genre    *)
(* filter G has every token of T as a substring of one of its searchable   *)
(* fields (title, original title, genres, directors, actors, description), *)
(* and has, for every genre id of G, a linked genre with that id.          *)

\* the searchable fields of a row, in lower case
SearchableFields(m) ==
    {Lower(m.title), Lower(Display(m.genre_list)),
     Lower(Display(DirectorNames(directors, m))),
     Lower(Display(ActorNames(actors, m)))}
    \cup (IF m.title_original # None
          THEN {Lower(Val(m.title_original))} ELSE {})
    \cup (IF m.description # None THEN {Lower(Val(m.description))} ELSE {})

SearchResultsMatchFilters ==
    ret.op = "search" =>
        \A m \in Range(ResultRows) :
            /\ \A i \in 1..Len(ret.value.query_words) :
                   \E field \in SearchableFields(m) :
                       IsSubstring(ret.value.query_words[i], field)
            /\ \A i \in 1..Len(ret.value.genres) :
                   \E j \in 1..Len(m.genre_list) :
                       GENRE_SEED_DATA[GenreId(m.genre_list[j])].tmdb_movie_id
                           = Some(ret.value.genres[i])

\* a result for two tokens and a genre filter that is not empty
SearchResultsMatchFiltersWitness ==
    /\ ret.op = "search"
    /\ Len(ret.value.query_words) = 2
    /\ Len(ret.value.genres) > 0
    /\ Len(ret.value.movies) > 0

-----------------------------------------------------------------------------
(* C8: similarity sub-score.  The similarity of a scored candidate is the  *)
(* sum, over the selected rated items, of (r - 5) * max(0.1, 1 - 0.05 * i) *)
(* when the rated item's recommendation list contains the candidate at     *)
(* position i, and of zero when the list does not contain the candidate.   *)
(* A recommendation list holds items of its source's content type, so it   *)
(* contains a candidate only of that type.                                 *)

\* the list a lookup of the key returns in this state
ListOf(k) ==
    _get_cached_recommendations(memory_cache, rec_cache, k, now,
                                ProviderIds(k)).rec_ids

ScoredMovie == Val(get_movie_by_kp_id(movies, ret.key[1], ret.key[2]))

ListContribution(ur, candidate) ==
    LET rated_movie == MovieById(movies, ur.movie_id)
        rec_ids == ListOf(<<rated_movie.kinopoisk_id, rated_movie.is_tv>>)
        at == {i \in 1..Len(rec_ids) :
                   /\ rec_ids[i] = candidate.kinopoisk_id
                   /\ rated_movie.is_tv = candidate.is_tv}
    IN IF at = {} THEN RZero
       ELSE LET i == (CHOOSE a \in at : \A b \in at : a <= b) - 1
            IN RMul(RInt(ur.rating - 5),
                    RMax(Rat(1, 10), RSub(RInt(1), Rat(5 * i, 100))))

ListSimilarity(candidate) ==
    LET selected == SelectedRatings(get_all_user_ratings(user_ratings))
    IN RSum([i \in 1..Len(selected) |->
                 ListContribution(selected[i], candidate)])

SimilarityIsSumOverLists ==
    ret.op = "score" => ret.value.similarity = ListSimilarity(ScoredMovie)

-----------------------------------------------------------------------------
(* C9: the score is monotonic in director affinity.  For a scored          *)
(* candidate that has directors, with the similarity, the genre and actor  *)
(* affinities and the aggregator ratings as they are, the score with the   *)
(* candidate's director affinity at 8 is strictly greater than the score   *)
(* with it at 4; and the score returned is the one for the affinity the    *)
(* store holds.                                                            *)

\* the directors table with the affinity of the linked directors set to v
DirectorsAt(links, v) ==
    [d \in DOMAIN directors |->
        IF Contains(links, d)
        THEN [directors[d] EXCEPT !.avg_rating = Some(RInt(v))]
        ELSE directors[d]]

ScoreAt(m, v) ==
    calculate_score(m, movies, user_ratings, genres,
                    DirectorsAt(m.director_list, v), actors,
                    memory_cache, rec_cache, now).score

DirectorAffinityIs(m, v) ==
    \A i \in 1..Len(m.director_list) :
        directors[m.director_list[i]].avg_rating = Some(RInt(v))

ScoreMonotoneInDirector ==
    (ret.op = "score" /\ Len(ScoredMovie.director_list) > 0) =>
        /\ RLt(ScoreAt(ScoredMovie, 4), ScoreAt(ScoredMovie, 8))
        /\ DirectorAffinityIs(ScoredMovie, 4) =>
               ret.value.score = ScoreAt(ScoredMovie, 4)
        /\ DirectorAffinityIs(ScoredMovie, 8) =>
               ret.value.score = ScoreAt(ScoredMovie, 8)

\* a candidate whose directors average 8 was scored, above its score at 4
ScoreMonotoneInDirectorWitness ==
    /\ ret.op = "score"
    /\ Len(ScoredMovie.director_list) > 1
    /\ DirectorAffinityIs(ScoredMovie, 8)
    /\ ret.value.score = ScoreAt(ScoredMovie, 8)
    /\ RLt(ScoreAt(ScoredMovie, 4), ret.value.score)

-----------------------------------------------------------------------------
(* C10: affinities follow every rating change.  When a rating entry point  *)
(* (rate, delete rating, save review) has finished, its follow-up          *)
(* included, every genre, director and actor linked to the item it changed *)
(* has the stored average and count of the current ratings of the rated    *)
(* items linked to it: (None, 0) when there is none.                       *)

StoredStats(row) ==
    [avg_rating |-> row.avg_rating, rating_count |-> row.rating_count]

ChangedMovie == MovieById(movies, Val(ret.value))

AffinitiesFollowRatings ==
    ret.op \in {"rate", "delete", "review"} =>
        /\ \A n \in Range(ChangedMovie.genre_list) :
               StoredStats(genres[n]) = GenreStats(movies, user_ratings, n)
        /\ \A d \in Range(ChangedMovie.director_list) :
               StoredStats(directors[d])
                   = DirectorStats(movies, user_ratings, d)
        /\ \A a \in Range(ChangedMovie.actor_list) :
               StoredStats(actors[a]) = ActorStats(movies, user_ratings, a)

-----------------------------------------------------------------------------
(* C11: affinity recomputation is idempotent.  When                        *)
(* update_entity_ratings_for_movie has just run for an item and runs for   *)
(* the same item again with no rating change in between, the second call   *)
(* leaves every genre, director and actor with the (avg_rating,            *)
(* rating_count) the first call left.  ret names the item of the call that *)
(* ran last: every save, delete and review resets it.                      *)

RecomputedLast(movie_id) ==
    ret.op \in {"rate", "delete"} /\ ret.value = Some(movie_id)

RecomputeIdempotent ==
    [][\A i \in 1..Len(tasks) :
           (RecomputedLast(tasks[i].movie_id) /\ FollowUp(i))
               => UNCHANGED <<genres, directors, actors>>]_vars

\* the first call has stored an average for the item's director and the
\* second call for the item is about to run
RecomputeIdempotentWitness ==
    \E i \in 1..Len(tasks) :
        /\ RecomputedLast(tasks[i].movie_id)
        /\ \E d \in Range(MovieById(movies, tasks[i].movie_id).director_list) :
               directors[d].rating_count > 0
-----------------------------------------------------------------------------
(* C12: a genre string that is a canonical name or an alias of the seeded  *)
(* table, in any letter case and with surrounding blanks, normalizes to a  *)
(* non-empty set of genres; a string that is no name, alias or compound    *)
(* key, the empty string included, normalizes to the empty set.            *)

NormalizeRecognizes ==
    (ret.op = "normalize" /\ Len(ret.key.words) = 1) =>
        /\ ret.key.words[1] \in GenreNames \cup SeedAliases
               => ret.value # {}
        /\ ret.key.words[1] \in UnknownWords => ret.value = {}

\* an alias in capitals between blanks has been resolved, and an unknown
\* word has been normalized to nothing
NormalizeAliasWitness ==
    /\ ret.op = "normalize"
    /\ ret.key.text = <<" ", "K", "H", "O", "R", "R", "O", "R", " ", " ">>
    /\ ret.value = {<<"u", "z", "h", "a", "s", "y">>}

-----------------------------------------------------------------------------
(* C13: the compound phrase "action & adventure" normalizes to exactly the *)
(* two genres boevik (action) and priklyucheniya (adventure) when it is    *)
(* the whole genre string, and when it is one comma-separated segment of   *)
(* the string it adds exactly these two to what the other segment names.   *)

\* the genres a word names by the tables: itself, the genre it is an
\* alias of, or the genres of its compound key
NamedBy(w) ==
    {GENRE_SEED_DATA[i].name : i \in {j \in 1..Len(GENRE_SEED_DATA) :
         \/ GENRE_SEED_DATA[j].name = w
         \/ w \in Aliases(GENRE_SEED_DATA[j])
         \/ \E k \in 1..Len(COMBINED_GENRES) :
                /\ COMBINED_GENRES[k].key = w
                /\ Contains(COMBINED_GENRES[k].names, GENRE_SEED_DATA[j].name)}}

CompoundExpands ==
    (/\ ret.op = "normalize"
     /\ Contains(ret.key.words, <<"a", "c", "t", "i", "o", "n", " ", "&", " ", "a", "d", "v", "e", "n", "t", "u", "r", "e">>)
     /\ ret.key.sep \in {<<",">>, <<",", " ">>}) =>
        /\ {<<"b", "o", "e", "v", "i", "k">>, <<"p", "r", "i", "k", "l", "y", "u", "c", "h", "e", "n", "i", "y", "a">>} \subseteq ret.value
        /\ ret.value = UNION {NamedBy(w) : w \in Range(ret.key.words)}

\* the phrase was a segment next to another genre
CompoundExpandsWitness ==
    /\ ret.op = "normalize"
    /\ ret.key.text = <<"A", "c", "t", "i", "o", "n", " ", "&", " ", "a", "d", "v", "e", "n", "t", "u", "r", "e", ",", " ", "h", "o", "r", "r", "o", "r">>
    /\ ret.value = {<<"b", "o", "e", "v", "i", "k">>, <<"p", "r", "i", "k", "l", "y", "u", "c", "h", "e", "n", "i", "y", "a">>, <<"u", "z", "h", "a", "s", "y">>}
-----------------------------------------------------------------------------
(* C14, C15: the companions of the search.                                 *)

\* the identities in the recommendation list the cache holds for an item
ListedBy(source) ==
    LET Typed(cached_ids) ==
            IF cached_ids = None THEN {}
            ELSE {<<Val(cached_ids)[i], source.is_tv>> :
                      i \in 1..Len(Val(cached_ids))}
    IN Typed(get_cached_recommendations(rec_cache, source.kinopoisk_id,
                                        source.is_tv, now))

\* C14: find_magic_recommendation returns None or one row; a returned row
\* is in the recommendation list of an item rated at least 6, is neither
\* rated nor in the wishlist, and has the greatest score among the scored
\* candidates; None is returned when no item is rated at least 6.
MagicIsBestUnratedUnlisted ==
    ret.op = "magic" =>
        /\ Len(get_rated_movies(movies, user_ratings, 6)) = 0
               => ret.value.movie = None
        /\ ret.value.movie # None =>
               LET m == MovieById(movies, Val(ret.value.movie)) IN
               /\ \E liked \in Range(get_rated_movies(movies, user_ratings, 6)) :
                      <<m.kinopoisk_id, m.is_tv>> \in ListedBy(liked)
               /\ get_user_rating(user_ratings, m.id) = None
               /\ m.id \notin wishlist
               /\ \E i \in 1..Len(ret.value.scored) :
                      /\ ret.value.scored[i].item = m.id
                      /\ \A j \in 1..Len(ret.value.scored) :
                             RLe(ret.value.scored[j].key, ret.value.scored[i].key)

\* the rows find_similar_movies returned
SimilarRows == [i \in 1..Len(ret.value) |-> MovieById(movies, ret.value[i])]

\* C15: find_similar_movies returns only rows whose identity is in the
\* recommendation list of the item (the cached list, or the list fetched
\* and cached by the call), no identity twice, in non-increasing order of
\* score, or of aggregator consensus when there are no ratings.
SimilarListedOnceOrdered ==
    ret.op = "similar" =>
        /\ \A i \in 1..Len(SimilarRows) :
               <<SimilarRows[i].kinopoisk_id, SimilarRows[i].is_tv>>
                   \in ListedBy(Basic(ret.key[1], ret.key[2]))
        /\ \A i, j \in 1..Len(SimilarRows) :
               (SimilarRows[i].kinopoisk_id = SimilarRows[j].kinopoisk_id
                /\ SimilarRows[i].is_tv = SimilarRows[j].is_tv) => i = j
        /\ \A i \in 1..(Len(SimilarRows) - 1) :
               IF user_ratings # {}
               THEN RLe(ScoreOf(SimilarRows[i + 1]), ScoreOf(SimilarRows[i]))
               ELSE RLe(Consensus(SimilarRows[i + 1]), Consensus(SimilarRows[i]))

-----------------------------------------------------------------------------
(* C16: a provider instance that has received a 401, 403 or 429 response   *)
(* is disabled from then on: no later call on it issues a request, a call  *)
(* made while it is disabled returns an empty result without a request,    *)
(* and the instance is never enabled again.                                *)

Refused(i) ==
    trace[i].kind = "response" /\ trace[i].status \in {401, 403, 429}

RefusedProviderStaysDisabled ==
    /\ \A i \in 1..Len(trace) :
           Refused(i) =>
               /\ disabled[trace[i].provider]
               /\ \A j \in (i + 1)..Len(trace) :
                      ~(trace[j].kind = "request"
                        /\ trace[j].provider = trace[i].provider)
    /\ (ret.op = "ratings" /\ ~ret.value.requested) => ret.value.result = "empty"

-----------------------------------------------------------------------------
(* C17: once the shutdown flag is set the enrichment starts no provider    *)
(* call and writes no row: every call it started and every row it wrote    *)
(* was started or written while the flag was not set.                      *)

NothingStartedAfterShutdown ==
    \A i \in 1..Len(trace) : ~trace[i].flag

-----------------------------------------------------------------------------
(* C18.                                                                    *)

RatingRows(movie_id) == {ur \in user_ratings : ur.movie_id = movie_id}

\* the saves and deletes of a movie that have returned, oldest first
Returned(movie_id) == SelectSeq(trace, LAMBDA e : e.movie_id = movie_id)

\* at most one UserRating row per movie, also while saves run concurrently
OneRatingRowPerMovie ==
    \A movie_id \in UpsertMovies : Cardinality(RatingRows(movie_id)) <= 1

\* C18: after any sequence of rating saves and deletes, also when saves for
\* the same movie run concurrently, there is at most one UserRating row per
\* movie, and when the save or delete of a movie that returned last is a
\* save, and no other save or delete of the movie began after it began, the
\* row of the movie holds the rating of that save.
RatingRowHoldsLatestSave ==
    /\ OneRatingRowPerMovie
    /\ \A movie_id \in UpsertMovies :
           LET done == Returned(movie_id) IN
           (/\ Len(done) > 0
            /\ done[Len(done)].op = "save"
            /\ done[Len(done)].latest)
               => \E ur \in RatingRows(movie_id) :
                      ur.rating = done[Len(done)].rating

\* a save that changes the rating updates the row in place, and a save that
\* inserts or updates leaves its rating in the row when it returns
SaveWritesInPlace ==
    [][\A t \in 1..MaxTasks :
           (SaveCommit(t) /\ FlushedStatement(tasks[t]) # "none")
               => /\ \E ur \in user_ratings' :
                         /\ ur.movie_id = tasks[t].movie_id
                         /\ ur.rating = tasks[t].rating
                  /\ FlushedStatement(tasks[t]) = "update"
                         => {ur.id : ur \in user_ratings'}
                                = {ur.id : ur \in user_ratings}]_vars

-----------------------------------------------------------------------------
(* C19.                                                                    *)

\* the entry of key k is the newest entry of the LRU c and holds ids
NewestEntry(c, k, ids) ==
    Len(c) > 0 /\ c[Len(c)] = [key |-> k, value |-> ids]

-----------------------------------------------------------------------------
(* C20.                                                                    *)

\* when key was last accessed: the index of its latest get or set in the
\* log, or for an entry not accessed since the cache was filled, its place
\* in the filling order, counted below zero
AccessTime(key) ==
    LET accesses == {i \in 1..Len(trace) : trace[i].key = key}
    IN IF accesses = {}
       THEN key[1] - FillerBase - MAX_CACHE_SIZE - 1
       ELSE CHOOSE i \in accesses : \A j \in accesses : j <= i

\* the keys that a step removes from the LRU
Evicted == LRUKeySet(memory_cache) \ LRUKeySet(memory_cache')

\* C20: the LRU never holds more than MAX_CACHE_SIZE keys; a set of a new
\* key into a full cache removes exactly one key, one that was accessed (by
\* a get that found it or a set) before every key that stays; a set of a
\* key already held and a get remove nothing; and no get or set changes the
\* recommendation_cache table.
LRUEvictsLeastRecent ==
    /\ [](Len(memory_cache) <= MAX_CACHE_SIZE)
    /\ [][\A k \in LRUKeys :
              /\ CacheGet(k) => Evicted = {}
              /\ \A ids \in RecLists :
                     CacheSet(k, ids) =>
                         /\ k \in LRUKeySet(memory_cache')
                         /\ IF k \notin LRUKeySet(memory_cache)
                               /\ Len(memory_cache) = MAX_CACHE_SIZE
                            THEN /\ Cardinality(Evicted) = 1
                                 /\ \A e \in Evicted,
                                       j \in LRUKeySet(memory_cache) \ Evicted :
                                        AccessTime(e) < AccessTime(j)
                            ELSE Evicted = {}
              /\ (CacheGet(k) \/ \E ids \in RecLists : CacheSet(k, ids))
                     => rec_cache' = rec_cache]_vars

\* the cache is full, the entry that was its oldest has been read and is
\* still held, and the entry after it has been evicted while its row is
\* still in the store
EvictedAfterGet ==
    /\ Len(memory_cache) = MAX_CACHE_SIZE
    /\ \E i \in 1..Len(trace) :
           trace[i] = [op |-> "get", key |-> <<FillerBase + 1, FALSE>>]
    /\ <<FillerBase + 1, FALSE>> \in LRUKeySet(memory_cache)
    /\ <<FillerBase + 2, FALSE>> \notin LRUKeySet(memory_cache)
    /\ get_cached_recommendations(rec_cache, FillerBase + 2, FALSE, now) # None

-----------------------------------------------------------------------------
(* C21.                                                                    *)

\* the ratings of the rated movies that have x in the list named by field
LinkedRatings(field, x) ==
    {ur \in user_ratings :
        \E m \in movies : m.id = ur.movie_id /\ x \in Range(m[field])}

RECURSIVE RatingSum(_)
RatingSum(rows) ==
    IF rows = {} THEN 0
    ELSE LET ur == CHOOSE r \in rows : TRUE
         IN ur.rating + RatingSum(rows \ {ur})

\* row holds the number of the ratings rows and their mean, or no average
\* and 0 when there is none
HoldsMeanAndCount(row, rows) ==
    /\ row.rating_count = Cardinality(rows)
    /\ IF rows = {} THEN row.avg_rating = None
       ELSE /\ row.avg_rating # None
            /\ Val(row.avg_rating)[1] * Cardinality(rows)
                   = RatingSum(rows) * Val(row.avg_rating)[2]

\* C21: when update_entity_ratings_for_movie has run for a movie, every
\* genre, director and actor of the movie holds the mean and the number of
\* the ratings of all rated movies linked to it, and holds no average and
\* the count 0 when no rated movie is linked to it.
RecomputeIsFull ==
    [][\A m \in movies :
           Recompute(m) =>
               /\ \A n \in Range(m.genre_list) :
                      HoldsMeanAndCount(genres'[n],
                                        LinkedRatings("genre_list", n))
               /\ \A d \in Range(m.director_list) :
                      HoldsMeanAndCount(directors'[d],
                                        LinkedRatings("director_list", d))
               /\ \A a \in Range(m.actor_list) :
                      HoldsMeanAndCount(actors'[a],
                                        LinkedRatings("actor_list", a))]_vars

\* a recomputation has run for a movie one of whose genres is the genre of
\* two movies rated 4 and 9
RecomputedOverTwoMovies ==
    /\ ret.op = "recompute"
    /\ \E n \in Range(MovieById(movies, Val(ret.value)).genre_list) :
           /\ genres[n].rating_count = 2
           /\ genres[n].avg_rating = Some(Rat(13, 2))

\* a stored average is cleared: the recomputation finds no rated movie for
\* a director that had one
AverageCleared ==
    \E m \in movies, d \in DOMAIN directors :
        /\ Recompute(m)
        /\ directors[d].avg_rating # None
        /\ directors'[d].avg_rating = None
        /\ directors'[d].rating_count = 0

-----------------------------------------------------------------------------
(* C22.                                                                    *)

\* the ratings whose movie had its recommendation list fetched
FetchedFor ==
    {ur \in user_ratings :
        \E r \in rec_cache :
            /\ r.source_tmdb_id = MovieById(movies, ur.movie_id).kinopoisk_id
            /\ r.source_is_tv = MovieById(movies, ur.movie_id).is_tv}

Fewest(n, k) == IF n < k THEN n ELSE k

\* C22: the similarity uses the 15 liked ratings (6 and above) that are
\* highest, or all when there are fewer, and the 15 disliked ratings (4 and
\* below) that are lowest, or all when there are fewer: recommendation lists
\* are fetched for the movies of these ratings and for no other, never for
\* a movie rated 5, for no more than 30 movies, and a candidate that every
\* list names first gets rating - 5 from each of these ratings and nothing
\* else.
SimilaritySelectsThirty ==
    ret.op = "similarity" =>
        LET liked == {ur \in user_ratings : ur.rating >= 6}
            disliked == {ur \in user_ratings : ur.rating <= 4}
        IN /\ Cardinality(rec_cache) = Cardinality(FetchedFor)
           /\ Cardinality(FetchedFor) <= 30
           /\ FetchedFor \subseteq liked \cup disliked
           /\ Cardinality(FetchedFor \cap liked)
                  = Fewest(Cardinality(liked), 15)
           /\ Cardinality(FetchedFor \cap disliked)
                  = Fewest(Cardinality(disliked), 15)
           /\ \A a \in FetchedFor \cap liked, b \in liked \ FetchedFor :
                  a.rating >= b.rating
           /\ \A a \in FetchedFor \cap disliked, b \in disliked \ FetchedFor :
                  a.rating <= b.rating
           /\ ret.value = IF ret.key = <<1, FALSE>>
                          THEN RInt(RatingSum(FetchedFor)
                                        - 5 * Cardinality(FetchedFor))
                          ELSE RZero

\* the similarity was computed over a history with more than 15 liked and
\* more than 15 disliked ratings and with ratings of 5
SimilarityOverLongHistory ==
    /\ ret.op = "similarity"
    /\ ret.key = <<1, FALSE>>
    /\ Cardinality({ur \in user_ratings : ur.rating >= 6}) > 15
    /\ Cardinality({ur \in user_ratings : ur.rating <= 4}) > 15
    /\ \E ur \in user_ratings : ur.rating = 5
    /\ Cardinality(rec_cache) = 30

-----------------------------------------------------------------------------
(* C23: aggregator consensus.  The consensus of an item is the mean of the *)
(* external ratings the item has (TMDB and IMDb as they are, Rotten        *)
(* Tomatoes and Metacritic divided by 10) and 5 when it has none; a rating *)
(* the item does not have is left out of the mean; and with no other term  *)
(* in the score, the score is zero exactly when the consensus is 5.        *)

ConsensusMovie == Val(get_movie_by_kp_id(movies, ret.key[1], ret.key[2]))

\* the ratings of a row that hold a value, on the scale of 10
AvailableRatings(m) ==
       (IF m.tmdb_rating # None THEN <<Val(m.tmdb_rating)>> ELSE <<>>)
    \o (IF m.imdb_rating # None THEN <<Val(m.imdb_rating)>> ELSE <<>>)
    \o (IF m.rotten_tomatoes # None
        THEN <<Rat(Val(m.rotten_tomatoes), 10)>> ELSE <<>>)
    \o (IF m.metacritic # None THEN <<Rat(Val(m.metacritic), 10)>> ELSE <<>>)

ConsensusIsMeanOfAvailable ==
    ret.op = "consensus" =>
        /\ ret.value.consensus =
               IF Len(AvailableRatings(ConsensusMovie)) = 0 THEN RInt(5)
               ELSE RMean(AvailableRatings(ConsensusMovie))
        /\ ret.value.score = RZero <=> ret.value.consensus = RInt(5)

\* the same over the ratings that hold a value other than zero
NonZeroRatings(m) == SelectSeq(AvailableRatings(m), LAMBDA x : x # RZero)

ConsensusIsMeanOfNonZero ==
    ret.op = "consensus" =>
        /\ ret.value.consensus =
               IF Len(NonZeroRatings(ConsensusMovie)) = 0 THEN RInt(5)
               ELSE RMean(NonZeroRatings(ConsensusMovie))
        /\ ret.value.score =
               RMul(WEIGHT_AGGREGATORS, RSub(ret.value.consensus, RInt(5)))
        /\ ret.value.score = RZero <=> ret.value.consensus = RInt(5)

\* a row whose Rotten Tomatoes rating is 0 % has been given its consensus
ConsensusWithZeroRating ==
    /\ ret.op = "consensus"
    /\ ConsensusMovie.rotten_tomatoes = Some(0)
    /\ ConsensusMovie.imdb_rating # None

-----------------------------------------------------------------------------
(* C24: bounded fan-out.  At every moment of a search, the requests to     *)
(* providers that are in flight at the same time, those a keyword search   *)
(* sends from its own pool included, are at most 10.                       *)

FanoutWithinCap == InFlight <= LoadWorkers

\* what the pools do bound: the branches running at once, the requests of
\* one keyword search, and the loads running at once
PoolsWithinTheirCaps ==
    /\ Cardinality(Running({"discover", "search"})) <= SearchWorkers
    /\ \A i \in 1..Len(tasks) : tasks[i].inflight <= KeywordWorkers
    /\ Cardinality(Running({"load"})) <= LoadWorkers
    /\ InFlight <= SearchWorkers * KeywordWorkers
    /\ Running({"load"}) # {} => InFlight <= LoadWorkers

\* a branch waits for a worker while eight branches run
BranchWaitsForWorker ==
    /\ Cardinality(Running({"discover", "search"})) = SearchWorkers
    /\ \E i \in 1..Len(tasks) : tasks[i].phase = "queued"

-----------------------------------------------------------------------------
(* C25: the enrichment sets only the rating fields a provider returned.    *)
(* A step of the enrichment changes a row only by putting on it the fields *)
(* its result holds: a field the result lacks keeps the stored value, and  *)
(* an empty result or a failed call changes nothing.  Whatever the results *)
(* of the other rows are, when the enrichment returns every row whose      *)
(* result holds a field has that field.                                    *)

ResultFor(m) == {r \in tasks[1].results : r.id = m.id}

HoldsFieldsOf(m, ratings) ==
    /\ ratings.imdb # None => m.imdb_rating = ratings.imdb
    /\ ratings.rotten_tomatoes # None
           => m.rotten_tomatoes = ratings.rotten_tomatoes
    /\ ratings.metacritic # None => m.metacritic = ratings.metacritic

\* the row m after a step is the row before it, or differs from it in
\* rating fields of its result only
ChangedByResultOnly(m, after) ==
    \/ after = m
    \/ \E r \in ResultFor(m) :
          /\ r.outcome.kind = "ratings"
          /\ HoldsFieldsOf(after, r.outcome.ratings)
          /\ r.outcome.ratings.imdb = None
                 => after.imdb_rating = m.imdb_rating
          /\ r.outcome.ratings.rotten_tomatoes = None
                 => after.rotten_tomatoes = m.rotten_tomatoes
          /\ r.outcome.ratings.metacritic = None
                 => after.metacritic = m.metacritic
          /\ after = [m EXCEPT !.imdb_rating = after.imdb_rating,
                               !.rotten_tomatoes = after.rotten_tomatoes,
                               !.metacritic = after.metacritic]

AllEnriched ==
    ret.op = "enriched" =>
        /\ ret.value = {m.id : m \in {r \in movies : ResultFor(r) # {}}}
        /\ \A m \in movies : \A r \in ResultFor(m) :
               r.outcome.kind = "ratings"
                   => HoldsFieldsOf(m, r.outcome.ratings)

EnrichmentSetsReturnedFieldsOnly ==
    /\ [](AllEnriched)
    /\ [][\A m \in movies :
              ChangedByResultOnly(m, MovieById(movies', m.id))]_vars

\* the enrichment has returned; the call of one row failed or was answered
\* with nothing, and a row that held a Rotten Tomatoes rating received an
\* IMDb rating alone and holds both
PartialAndFailedResults ==
    /\ ret.op = "enriched"
    /\ \E r \in tasks[1].results : r.outcome.kind = "raised"
    /\ \E r \in tasks[1].results : r.outcome.kind = "empty"
    /\ \E m \in movies : \E r \in ResultFor(m) :
          /\ r.outcome.kind = "ratings"
          /\ r.outcome.ratings.imdb # None
          /\ r.outcome.ratings.rotten_tomatoes = None
          /\ m.rotten_tomatoes = Some(70)

-----------------------------------------------------------------------------
(* C26: the cache tiers are coherent.  Whenever a key is in the LRU cache  *)
(* and has a row in the persistent cache that is not older than the        *)
(* maximum age, the two hold the same list.                                *)

CoherentAt(k) ==
    (/\ LRUHas(memory_cache, k)
     /\ get_cached_recommendations(rec_cache, k[1], k[2], now) # None)
        => LRUGetValue(memory_cache, k)
               = get_cached_recommendations(rec_cache, k[1], k[2], now)

TiersCoherent == \A k \in CacheKeys : CoherentAt(k)

\* as long as no row can have expired
TiersCoherentBeforeExpiry == now <= MaxAgeDays => TiersCoherent

\* a key of the LRU cache has its row rewritten by a direct caller
RowRewrittenUnderLRU ==
    /\ ret.op = "fetched"
    /\ LRUHas(memory_cache, ret.key)

-----------------------------------------------------------------------------
(* C27: a failed fetch is not cached.  After a lookup whose provider       *)
(* request failed, the lookup has returned the empty list and neither the  *)
(* LRU cache nor the persistent cache holds an entry for the key, so the   *)
(* next lookup of the key asks the provider again.                         *)

\* the last operation was a lookup whose request failed
AfterFailedFetch ==
    /\ ret.op = "lookup"
    /\ ret.failed
    /\ Val(last_put[ret.key]).at = now

FailedFetchNotCached ==
    AfterFailedFetch =>
        /\ ret.value = Some(<<>>)
        /\ ~LRUHas(memory_cache, ret.key)
        /\ get_cached_recommendations(rec_cache, ret.key[1], ret.key[2], now)
               = None

\* what holds instead: the failure is stored in both tiers as an empty list
FailedFetchCachedAsEmpty ==
    AfterFailedFetch =>
        /\ ret.value = Some(<<>>)
        /\ LRUGetValue(memory_cache, ret.key) = Some(<<>>)
        /\ get_cached_recommendations(rec_cache, ret.key[1], ret.key[2], now)
               = Some(<<>>)

\* and the next lookup of the key does not ask the provider
NoRefetchAfterFailure ==
    [][(AfterFailedFetch /\ ret' # ret /\ ret'.key = ret.key)
           => ret'.tier = "memory"]_vars

-----------------------------------------------------------------------------
(* C28: optimistic rating updates reconcile with the store.  Once every    *)
(* background task of the rating changes of a movie has finished, the      *)
(* stored rating is the one selected last and the list shows the stored    *)
(* rating.                                                                 *)

AllTasksFinished ==
    /\ Len(tasks) > 0
    /\ \A t \in DOMAIN tasks : tasks[t].pc = "done"

StoredIsSelectedAndShown ==
    /\ StoredRating = Some(ret.value.selected)
    /\ ret.value.shown = StoredRating

RatingReconciled == AllTasksFinished => StoredIsSelectedAndShown

\* the same for changes whose tasks neither overlapped nor failed
RatingReconciledInSequence ==
    (/\ AllTasksFinished
     /\ \A t \in DOMAIN tasks : ~tasks[t].failed /\ ~tasks[t].overlapped)
        => StoredIsSelectedAndShown

\* two changes one after the other have been saved
TwoChangesInSequence ==
    /\ AllTasksFinished
    /\ Len(tasks) = 2
    /\ \A t \in DOMAIN tasks : ~tasks[t].failed /\ ~tasks[t].overlapped
    /\ tasks[1].rating # tasks[2].rating

-----------------------------------------------------------------------------
(* C29: the displayed list belongs to the latest request.  The items the   *)
(* list shows were found for the query searched last, whatever older       *)
(* search or fetch returns meanwhile, and the page counter of the latest   *)
(* search is advanced only by the fetches issued after it.                 *)

ListOfLatestQuery ==
    ~ret.value.loading =>
        \A i \in 1..Len(ret.value.movies) :
            ret.value.movies[i].query = ret.value.query

\* the search issued last, 0 before the first
LatestSearch ==
    LET searches == {t \in DOMAIN tasks : tasks[t].kind = "search"}
    IN IF searches = {} THEN 0
       ELSE CHOOSE t \in searches : \A u \in searches : u <= t

\* the page counter counts the fetches issued since the latest search and
\* finished
CounterOfLatestSearch ==
    ret.value.next_page =
        FirstNextPage + PagesPerFetch *
            Cardinality({t \in DOMAIN tasks :
                            /\ t > LatestSearch
                            /\ tasks[t].kind = "fetch"
                            /\ tasks[t].pc = "done"})

ListBelongsToLatestRequest == ListOfLatestQuery /\ CounterOfLatestSearch

\* the same while no request has been overlapped by a later search
ListOfLatestRequestInSequence ==
    (\A t \in DOMAIN tasks : ~tasks[t].overlapped)
        => ListBelongsToLatestRequest

\* a search, a fetch of its next pages and a second search have each
\* finished before the next began
RequestsInSequence ==
    /\ Len(tasks) = 3
    /\ \A t \in DOMAIN tasks : tasks[t].pc = "done" /\ ~tasks[t].overlapped
    /\ tasks[2].kind = "fetch"
    /\ tasks[3].query # tasks[1].query
    /\ Len(ret.value.movies) > 0

-----------------------------------------------------------------------------
(* C30 *)

SaveFailed == ret.op = "save" /\ ret.value.failed

\* C30: when a step of a save_movie call has failed, the committed tables
\* are those of before the call, also after the caller's commit, and the
\* call has returned the item stored for the identity when there is one
\* and has raised exactly when there is none
SaveMovieAllOrNothing ==
    SaveFailed =>
        /\ Committed = ret.value.before
        /\ ret.value.movie =
               get_movie_by_kp_id(movies, ret.key[1], ret.key[2])
        /\ ret.value.raised = (ret.value.movie = None)

\* a call on a stored item failed with changes pending in the session,
\* returned the stored item, and the caller has committed since
FailedSaveOfStoredItem ==
    /\ SaveFailed
    /\ ret.value.pending
    /\ ret.value.movie # None
    /\ ret.value.committed
====
